---- MODULE Spec2Model ----
(***************************************************************************)
(* Verification model of the preproyecto-tds2025 compiler core:            *)
(*   - the scope chain (Env / Table / Symbol, src/symbol_table.go),        *)
(*   - the semantic analyzer (Analyzer, src/unnamed/part_005) run on the   *)
(*     symbol table registered by the builder (src/builder.go),            *)
(*   - the two-pass code generator (codeGen, src/unnamed/part_001).        *)
(* Every component has its own specification over the shared variables;    *)
(* the variables of the other components keep their initial value.         *)
(***************************************************************************)
EXTENDS Integers, Sequences, FiniteSets, TLC

VARIABLES
    env,          \* Env chain under test: <<current Table, Prev's Table, ...>>
    lookupResult, \* what the last Env.Lookup call returned, or Nil
    prog,         \* the *Program handed to Analyze
    an,           \* the Analyzer: [env, errors, currentFun]
    anPc,         \* position of Analyze in its own body
    anIdx,        \* index of the next method Analyze hands to analyzeMethod
    anResult,     \* what Analyze returned
    body,         \* p.Main.Body.Statements handed to the code generator
    pass1,        \* the layout-pass codeGen
    pass2,        \* the emission-pass codeGen
    diags,        \* the CodeGenDiagnostics shared by both passes
    frame,        \* frame := pass1.nextOffset
    cgPc,         \* position of generateAssemblyWithDiagnostics
    cgIdx,        \* index of the next statement of generateBlock's loop
    cgResult,     \* what generateAssemblyWithDiagnostics returned
    cst,          \* the concrete syntax tree root handed to BuildAST
    bd,           \* the Builder: [symbolTable, calls]
    bdPc,         \* position of BuildAST / buildProgram
    bdIdx,        \* index i of buildProgram's loop over the named children
    bdProg,       \* the *Program buildProgram is filling
    bdResult      \* what BuildAST returned: [prog, err]

vars == <<env, lookupResult, prog, an, anPc, anIdx, anResult,
          body, pass1, pass2, diags, frame, cgPc, cgIdx, cgResult,
          cst, bd, bdPc, bdIdx, bdProg, bdResult>>

envVars == <<env, lookupResult>>
anVars  == <<prog, an, anPc, anIdx, anResult>>
cgVars  == <<body, pass1, pass2, diags, frame, cgPc, cgIdx, cgResult>>
bdVars  == <<cst, bd, bdPc, bdIdx, bdProg, bdResult>>

\* Go's nil (a nil pointer, a nil interface value, no value yet).
Nil == [k |-> "nil"]

Min(a, b) == IF a < b THEN a ELSE b
Max(a, b) == IF a > b THEN a ELSE b

(***************************************************************************)
(* Types of the typed AST (TypeKind) and the scope chain.                  *)
(***************************************************************************)
TypeVoid    == 0
TypeBool    == 1
TypeInteger == 2
TypeKinds   == {TypeVoid, TypeBool, TypeInteger}

\* Symbol{Type, isVar, Func}
Symbol(t, v, f) == [Type |-> t, isVar |-> v, Func |-> f]

\* A Table is a Go map: a function whose DOMAIN is the set of keys present.
EmptyTable == [n \in {} |-> Nil]

\* Table[name] = symbol (map assignment: adds the key or overwrites it).
TablePut(table, name, symbol) ==
    [n \in (DOMAIN table) \cup {name} |-> IF n = name THEN symbol ELSE table[n]]

\* Env{Table, Prev}: the chain is the sequence of its tables, current first;
\* Prev is the tail of the sequence, and Prev = nil when the tail is empty.
NewEnv(prev) == <<EmptyTable>> \o prev

\* func (env Env) Insert(name, symbol): writes the current table only.
Insert(e, name, symbol) == [e EXCEPT ![1] = TablePut(e[1], name, symbol)]

\* Faulty variant of Lookup: the outermost frame that has the name wins.
RECURSIVE LookupOutermost(_, _)
LookupOutermost(e, name) ==
    IF e = <<>>
    THEN [sym |-> [Type |-> 0, isVar |-> TRUE, Func |-> [k |-> "nil"]], ok |-> FALSE]
    ELSE LET r == LookupOutermost(Tail(e), name)
         IN  IF r.ok THEN r
             ELSE IF name \in DOMAIN e[1]
             THEN [sym |-> e[1][name], ok |-> TRUE]
             ELSE r

\* Faulty variant of Lookup: the loop stops after the current frame.
LookupCurrentOnly(e, name) ==
    IF name \in DOMAIN e[1]
    THEN [sym |-> e[1][name], ok |-> TRUE]
    ELSE [sym |-> Symbol(0, TRUE, Nil), ok |-> FALSE]

\* func (env Env) Lookup(name) (Symbol, bool)
RECURSIVE Lookup(_, _)
Lookup(e, name) ==
    IF name \in DOMAIN e[1]
    THEN [sym |-> e[1][name], ok |-> TRUE]
    ELSE IF Len(e) > 1
         THEN Lookup(Tail(e), name)
         ELSE [sym |-> Symbol(0, TRUE, Nil), ok |-> FALSE]

(***************************************************************************)
(* Specification SpecEnv: scope chains as the builder and the analyzer     *)
(* grow them (a fresh Env whose Prev is the current one, Insert into the   *)
(* current table, restore of the previous Env), and Lookup on them.        *)
(***************************************************************************)
MaxScopes == 3

EnvNames == {"x", "y"}

EnvSymbols == {Symbol(TypeInteger, TRUE, Nil), Symbol(TypeBool, FALSE, Nil)}

\* The program state of the other components while one component runs.
IdleAn ==
    /\ prog = Nil /\ an = Nil /\ anPc = "idle" /\ anIdx = 0 /\ anResult = Nil

IdleCg ==
    /\ body = <<>> /\ pass1 = Nil /\ pass2 = Nil /\ diags = <<>>
    /\ frame = 0 /\ cgPc = "idle" /\ cgIdx = 0 /\ cgResult = Nil

IdleEnv == env = <<EmptyTable>> /\ lookupResult = Nil

IdleBd ==
    /\ cst = Nil /\ bd = Nil /\ bdPc = "idle" /\ bdIdx = 0
    /\ bdProg = Nil /\ bdResult = Nil

\* symbolTable := Env{Table: make(map[Identifier]Symbol)}
InitEnv == IdleEnv /\ IdleAn /\ IdleCg /\ IdleBd

\* prev := an.env; an.env = Env{Prev: &prev, Table: make(Table)}
EnvPush ==
    /\ Len(env) < MaxScopes
    /\ env' = NewEnv(env)
    /\ lookupResult' = Nil
    /\ UNCHANGED <<anVars, cgVars, bdVars>>

\* an.env = prev
EnvPop ==
    /\ Len(env) > 1
    /\ env' = Tail(env)
    /\ lookupResult' = Nil
    /\ UNCHANGED <<anVars, cgVars, bdVars>>

\* an.env.Insert(name, symbol)
EnvInsert ==
    /\ \E name \in EnvNames, symbol \in EnvSymbols :
          env' = Insert(env, name, symbol)
    /\ lookupResult' = Nil
    /\ UNCHANGED <<anVars, cgVars, bdVars>>

\* sym, ok := an.env.Lookup(name)
EnvLookup ==
    /\ \E name \in EnvNames :
          lookupResult' = [name |-> name, res |-> Lookup(env, name)]
    /\ UNCHANGED <<env, anVars, cgVars, bdVars>>

NextEnv == EnvPush \/ EnvPop \/ EnvInsert \/ EnvLookup

SpecEnv == InitEnv /\ [][NextEnv]_vars

\* The scopes of the chain, counted from the current one, that hold name.
Holders(e, name) == {i \in 1..Len(e) : name \in DOMAIN e[i]}

Innermost(S) == CHOOSE i \in S : \A j \in S : i <= j

\* C1: Lookup returns (symbol, true) with the symbol of the innermost scope
\* holding the name, and found = false exactly when no scope of the chain
\* holds it.
C1_LookupNearest ==
    lookupResult # Nil =>
        LET n == lookupResult.name
            H == Holders(env, n)
        IN  /\ lookupResult.res.ok = (H # {})
            /\ H # {} => lookupResult.res.sym = env[Innermost(H)][n]

\* A lookup that skipped the current scope and found the name in its Prev,
\* which shadows a different symbol of the same name further out.
C1_Witness ==
    /\ lookupResult # Nil
    /\ Len(env) = 3
    /\ lookupResult.name \notin DOMAIN env[1]
    /\ lookupResult.name \in DOMAIN env[2]
    /\ lookupResult.name \in DOMAIN env[3]
    /\ env[2][lookupResult.name] # env[3][lookupResult.name]
    /\ lookupResult.res.ok
    /\ lookupResult.res.sym = env[2][lookupResult.name]

(***************************************************************************)
(* The typed AST the analyzer walks.  Every node is a record whose field   *)
(* k names its Go type; Line is NodeBase.Line.                             *)
(***************************************************************************)
UnaryNeg == 0
UnaryNot == 1

BinAdd == 0
BinSub == 1
BinMul == 2
BinDiv == 3
BinEq  == 4
BinLT  == 5
BinGT  == 6
BinAnd == 7
BinOr  == 8

IntLiteral(line)          == [k |-> "IntLiteral", Line |-> line]
BoolLiteral(line)         == [k |-> "BoolLiteral", Line |-> line]
IdentExpr(name, t, line)  ==
    [k |-> "IdentExpr", Name |-> name, Type |-> t, Line |-> line]
ParenExpr(inner, line)    == [k |-> "ParenExpr", Inner |-> inner, Line |-> line]
CallExpr(callee, args, line) ==
    [k |-> "CallExpr", Callee |-> callee, Args |-> args, Line |-> line]
UnaryExpr(op, e, line)    == [k |-> "UnaryExpr", Op |-> op, Expr |-> e, Line |-> line]
BinaryExpr(op, l, r, line) ==
    [k |-> "BinaryExpr", Op |-> op, Left |-> l, Right |-> r, Line |-> line]

Assignment(target, value, line) ==
    [k |-> "Assignment", Target |-> target, Value |-> value, Line |-> line]
ReturnStmt(value, line)   == [k |-> "ReturnStmt", Value |-> value, Line |-> line]
IfStmt(cond, then, else, line) ==
    [k |-> "IfStmt", Cond |-> cond, Then |-> then, Else |-> else, Line |-> line]
WhileStmt(cond, blk, line) ==
    [k |-> "WhileStmt", Cond |-> cond, Body |-> blk, Line |-> line]
ExprStmt(e)               == [k |-> "ExprStmt", Expr |-> e, Line |-> 0]

VarDecl(t, name, value, line) ==
    [k |-> "VarDecl", Type |-> t, Name |-> name, Value |-> value, Line |-> line]
Parameter(t, name)        == [k |-> "Parameter", Type |-> t, Name |-> name]
Block(decls, stmts, line) ==
    [k |-> "Block", Declarations |-> decls, Stmts |-> stmts, Line |-> line]
MethodDecl(ret, name, params, blk, line) ==
    [k |-> "MethodDecl", Return |-> ret, Name |-> name, Params |-> params,
     Body |-> blk, Line |-> line]
Program(decls, methods, symbols) ==
    [k |-> "Program", Declarations |-> decls, Methods |-> methods,
     Symbols |-> symbols, Line |-> 1]

\* FuncInfo{Return, Params, Arity}; ParamInfo{Name, Type}
ParamInfo(name, t) == [Name |-> name, Type |-> t]
FuncInfo(ret, params, arity) == [Return |-> ret, Params |-> params, Arity |-> arity]

(***************************************************************************)
(* The analyzer.  a is the *Analyzer (env, errors, currentFun); every      *)
(* method returns the analyzer it leaves behind.                           *)
(***************************************************************************)
\* One recorded error: which diagnostic, the line errorf took from the node
\* (0 when it has none), and the identifier the message names.
Diag(kind, line, name) == [kind |-> kind, line |-> line, name |-> name]

\* func (an *Analyzer) errorf(n, format, a...)
errorf(a, n, kind, name) ==
    [a EXCEPT !.errors = Append(@, Diag(kind, n.Line, name))]

\* an.errors = append(an.errors, fmt.Errorf(...)): an error without a node
appendError(a, kind, name) ==
    [a EXCEPT !.errors = Append(@, Diag(kind, 0, name))]

\* (TypeKind, bool) together with the analyzer after the call
Res(a, t, ok) == [a |-> a, t |-> t, ok |-> ok]

\* fi.Arity = len(fi.Params), written through the *FuncInfo that the nearest
\* symbol of the name holds
RECURSIVE RepairArity(_, _)
RepairArity(e, name) ==
    IF name \in DOMAIN e[1]
    THEN [e EXCEPT ![1][name].Func.Arity = Len(e[1][name].Func.Params)]
    ELSE <<e[1]>> \o RepairArity(Tail(e), name)

\* func (an *Analyzer) lookupFunc(name string) *FuncInfo
lookupFunc(a, name) ==
    LET r == Lookup(a.env, name)
    IN  IF ~r.ok \/ r.sym.Func = Nil THEN Nil ELSE r.sym.Func

RECURSIVE checkExpr(_, _, _)
RECURSIVE checkCallExpr(_, _, _)
RECURSIVE checkArgs(_, _, _, _, _)
RECURSIVE checkUnary(_, _)
RECURSIVE checkBinary(_, _)
RECURSIVE analyzeBlock(_, _)
RECURSIVE analyzeDecls(_, _, _)
RECURSIVE analyzeStmts(_, _, _)
RECURSIVE checkIf(_, _)
RECURSIVE checkWhile(_, _)

\* func (an *Analyzer) checkExpr(e Expr, allowVoidCall bool) (TypeKind, bool)
checkExpr(a, e, allowVoidCall) ==
    CASE e.k = "IntLiteral"  -> Res(a, TypeInteger, TRUE)
      [] e.k = "BoolLiteral" -> Res(a, TypeBool, TRUE)
      [] e.k = "IdentExpr"   ->
            LET r == Lookup(a.env, e.Name)
            IN  IF ~r.ok
                THEN Res(errorf(a, e, "UseBeforeDeclaration", e.Name), 0, FALSE)
                ELSE Res(a, r.sym.Type, TRUE)
      [] e.k = "ParenExpr"   -> checkExpr(a, e.Inner, allowVoidCall)
      [] e.k = "CallExpr"    -> checkCallExpr(a, e, allowVoidCall)
      [] e.k = "UnaryExpr"   -> checkUnary(a, e)
      [] e.k = "BinaryExpr"  -> checkBinary(a, e)
      [] OTHER               -> Res(appendError(a, "UnknownExpression", ""), 0, FALSE)

\* Faulty variant of checkArgs: every argument is compared with the first
\* parameter.
checkArgsFirstParam(a, c, fi, i, max) ==
    IF i > max
    THEN a
    ELSE LET r  == checkExpr(a, c.Args[i], FALSE)
             a1 == IF r.t # fi.Params[1].Type
                   THEN errorf(r.a, c, "ArgumentTypeMismatch", c.Callee)
                   ELSE r.a
         IN  checkArgs(a1, c, fi, i + 1, max)

\* the loop "for i := 0; i < max; i++" of checkCallExpr, from argument i on
checkArgs(a, c, fi, i, max) ==
    IF i > max
    THEN a
    ELSE LET r  == checkExpr(a, c.Args[i], FALSE)
             a1 == IF r.t # fi.Params[i].Type
                   THEN errorf(r.a, c, "ArgumentTypeMismatch", c.Callee)
                   ELSE r.a
         IN  checkArgs(a1, c, fi, i + 1, max)

\* func (an *Analyzer) checkCallExpr(c *CallExpr, allowVoidCall bool) (TypeKind, bool)
checkCallExpr(a, c, allowVoidCall) ==
    LET r == Lookup(a.env, c.Callee)
    IN  IF ~r.ok \/ r.sym.Func = Nil
        THEN Res(errorf(a, c, "UndeclaredCall", c.Callee), 0, FALSE)
        ELSE LET fi    == r.sym.Func
                 arity == Len(fi.Params)
                 a1 == IF fi.Arity # Len(fi.Params)
                       THEN [a EXCEPT !.env = RepairArity(a.env, c.Callee)]
                       ELSE a
                 a2 == IF Len(c.Args) # arity
                       THEN errorf(a1, c, "ArityMismatch", c.Callee)
                       ELSE a1
                 max == Min(Len(c.Args), arity)
                 a3 == checkArgs(a2, c, fi, 1, max)
                 a4 == IF fi.Return = TypeVoid /\ ~allowVoidCall
                       THEN errorf(a3, c, "VoidUsedAsValue", c.Callee)
                       ELSE a3
             IN  Res(a4, fi.Return, TRUE)

\* Faulty variant of checkUnary: a mismatch leaves the expression without a
\* type.
checkUnaryNoTypeOnMismatch(a, u) ==
    LET r    == checkExpr(a, u.Expr, FALSE)
        want == IF u.Op = UnaryNeg THEN TypeInteger ELSE TypeBool
    IN  IF r.t # want
        THEN Res(errorf(r.a, u, "UnaryTypeMismatch", "op"), 0, FALSE)
        ELSE Res(r.a, want, TRUE)

\* func (an *Analyzer) checkUnary(u *UnaryExpr) (TypeKind, bool)
checkUnary(a, u) ==
    CASE u.Op = UnaryNeg ->
            LET r == checkExpr(a, u.Expr, FALSE)
            IN  Res(IF r.t # TypeInteger
                    THEN errorf(r.a, u, "UnaryTypeMismatch", "-")
                    ELSE r.a, TypeInteger, TRUE)
      [] u.Op = UnaryNot ->
            LET r == checkExpr(a, u.Expr, FALSE)
            IN  Res(IF r.t # TypeBool
                    THEN errorf(r.a, u, "UnaryTypeMismatch", "!")
                    ELSE r.a, TypeBool, TRUE)
      [] OTHER -> Res(a, 0, FALSE)

\* func (an *Analyzer) checkBinary(b *BinaryExpr) (TypeKind, bool)
checkBinary(a, b) ==
    LET l  == checkExpr(a, b.Left, FALSE)
        r  == checkExpr(l.a, b.Right, FALSE)
        lt == l.t
        rt == r.t
    IN  CASE b.Op \in {BinAdd, BinSub, BinMul, BinDiv} ->
                Res(IF lt # TypeInteger \/ rt # TypeInteger
                    THEN errorf(r.a, b, "BinaryTypeMismatch", "arithmetic")
                    ELSE r.a, TypeInteger, TRUE)
          [] b.Op \in {BinLT, BinGT} ->
                Res(IF lt # TypeInteger \/ rt # TypeInteger
                    THEN errorf(r.a, b, "BinaryTypeMismatch", "relational")
                    ELSE r.a, TypeBool, TRUE)
          [] b.Op = BinEq ->
                Res(IF lt # rt
                    THEN errorf(r.a, b, "BinaryTypeMismatch", "==")
                    ELSE r.a, TypeBool, TRUE)
          [] b.Op \in {BinAnd, BinOr} ->
                Res(IF lt # TypeBool \/ rt # TypeBool
                    THEN errorf(r.a, b, "BinaryTypeMismatch", "conditional")
                    ELSE r.a, TypeBool, TRUE)
          [] OTHER -> Res(r.a, 0, FALSE)

\* Faulty variant of checkAssignment: any symbol of the name, a method's
\* included, counts as a target.
checkAssignmentAnySymbol(a, s) ==
    LET r == Lookup(a.env, s.Target)
    IN  IF ~r.ok
        THEN errorf(a, s, "UndeclaredAssignmentTarget", s.Target)
        ELSE LET v == checkExpr(a, s.Value, FALSE)
             IN  IF v.t # r.sym.Type
                 THEN errorf(v.a, s, "AssignmentTypeMismatch", s.Target)
                 ELSE v.a

\* func (an *Analyzer) checkAssignment(a *Assignment)
checkAssignment(a, s) ==
    LET r == Lookup(a.env, s.Target)
    IN  IF ~r.ok \/ ~r.sym.isVar
        THEN errorf(a, s, "UndeclaredAssignmentTarget", s.Target)
        ELSE LET v == checkExpr(a, s.Value, FALSE)
             IN  IF v.t # r.sym.Type
                 THEN errorf(v.a, s, "AssignmentTypeMismatch", s.Target)
                 ELSE v.a

\* func (an *Analyzer) checkReturn(r *ReturnStmt)
checkReturn(a, r) ==
    IF a.currentFun = Nil
    THEN a
    ELSE IF a.currentFun.Return = TypeVoid
         THEN IF r.Value # Nil
              THEN errorf(a, r, "UnexpectedReturnValue", "")
              ELSE a
         ELSE IF r.Value = Nil
              THEN errorf(a, r, "MissingReturnValue", "")
              ELSE LET v == checkExpr(a, r.Value, FALSE)
                   IN  IF v.t # a.currentFun.Return
                       THEN errorf(v.a, r, "ReturnTypeMismatch", "")
                       ELSE v.a

\* func (an *Analyzer) checkExprStmt(e *ExprStmt)
checkExprStmt(a, e) == checkExpr(a, e.Expr, TRUE).a

\* Faulty variant of checkIf: a condition that is not Bool ends the check of
\* the statement.
checkIfStopAtCondition(a, i) ==
    LET c  == checkExpr(a, i.Cond, FALSE)
        a2 == IF i.Then # Nil THEN analyzeBlock(c.a, i.Then) ELSE c.a
    IN  IF c.t # TypeBool
        THEN errorf(c.a, i, "NonBooleanCondition", "if")
        ELSE IF i.Else # Nil THEN analyzeBlock(a2, i.Else) ELSE a2

\* func (an *Analyzer) checkIf(i *IfStmt)
checkIf(a, i) ==
    LET c  == checkExpr(a, i.Cond, FALSE)
        a1 == IF c.t # TypeBool
              THEN errorf(c.a, i, "NonBooleanCondition", "if")
              ELSE c.a
        a2 == IF i.Then # Nil THEN analyzeBlock(a1, i.Then) ELSE a1
    IN  IF i.Else # Nil THEN analyzeBlock(a2, i.Else) ELSE a2

\* func (an *Analyzer) checkWhile(w *WhileStmt)
checkWhile(a, w) ==
    LET c  == checkExpr(a, w.Cond, FALSE)
        a1 == IF c.t # TypeBool
              THEN errorf(c.a, w, "NonBooleanCondition", "while")
              ELSE c.a
    IN  analyzeBlock(a1, w.Body)

\* the loop over b.Declarations of analyzeBlock, from declaration i on
analyzeDecls(a, ds, i) ==
    IF i > Len(ds)
    THEN a
    ELSE LET d  == ds[i]
             a1 == IF d.Name \in DOMAIN a.env[1]
                   THEN errorf(a, d, "DuplicateDeclaration", d.Name)
                   ELSE [a EXCEPT !.env = Insert(a.env, d.Name,
                                                 Symbol(d.Type, TRUE, Nil))]
             a2 == IF d.Value # Nil
                   THEN LET v == checkExpr(a1, d.Value, FALSE)
                        IN  IF v.ok /\ v.t # d.Type
                            THEN errorf(v.a, d, "InitializerTypeMismatch", d.Name)
                            ELSE v.a
                   ELSE a1
         IN  analyzeDecls(a2, ds, i + 1)

\* the loop over b.Stmts of analyzeBlock, from statement i on
analyzeStmts(a, ss, i) ==
    IF i > Len(ss)
    THEN a
    ELSE LET st == ss[i]
             a1 == CASE st.k = "Assignment" -> checkAssignment(a, st)
                     [] st.k = "ReturnStmt" -> checkReturn(a, st)
                     [] st.k = "IfStmt"     -> checkIf(a, st)
                     [] st.k = "WhileStmt"  -> checkWhile(a, st)
                     [] st.k = "ExprStmt"   -> checkExprStmt(a, st)
                     [] OTHER               -> a
         IN  analyzeStmts(a1, ss, i + 1)

\* analyzeBlock without its last statement an.env = prev
analyzeBlockNoRestore(a, b) ==
    LET a0 == [a EXCEPT !.env = NewEnv(a.env)]
        a1 == analyzeDecls(a0, b.Declarations, 1)
    IN  analyzeStmts(a1, b.Stmts, 1)

\* func (an *Analyzer) analyzeBlock(b *Block)
analyzeBlock(a, b) ==
    LET a0 == [a EXCEPT !.env = NewEnv(a.env)]
        a1 == analyzeDecls(a0, b.Declarations, 1)
        a2 == analyzeStmts(a1, b.Stmts, 1)
    IN  [a2 EXCEPT !.env = Tail(a2.env)]

\* the loop over m.Params with a later parameter replacing an earlier one of
\* the same name
RECURSIVE insertParamsLastWins(_, _, _)
insertParamsLastWins(a, ps, i) ==
    IF i > Len(ps)
    THEN a
    ELSE LET prm == ps[i]
             a1  == IF prm.Name \in DOMAIN a.env[1]
                    THEN appendError(a, "DuplicateParameter", prm.Name)
                    ELSE a
             a2  == [a1 EXCEPT !.env = Insert(a1.env, prm.Name,
                                               Symbol(prm.Type, TRUE, Nil))]
         IN  insertParamsLastWins(a2, ps, i + 1)

\* the loop over m.Params of analyzeMethod, from parameter i on
RECURSIVE insertParams(_, _, _)
insertParams(a, ps, i) ==
    IF i > Len(ps)
    THEN a
    ELSE LET prm == ps[i]
             a1  == IF prm.Name \in DOMAIN a.env[1]
                    THEN appendError(a, "DuplicateParameter", prm.Name)
                    ELSE [a EXCEPT !.env = Insert(a.env, prm.Name,
                                                  Symbol(prm.Type, TRUE, Nil))]
         IN  insertParams(a1, ps, i + 1)

\* analyzeMethod that skips the method once a diagnostic was recorded
analyzeMethodUnlessFailed(a, m) ==
    IF a.errors # <<>> THEN a
    ELSE LET a0 == [a EXCEPT !.env = NewEnv(a.env)]
             a1 == [a0 EXCEPT !.currentFun = lookupFunc(a0, m.Name)]
             a2 == insertParams(a1, m.Params, 1)
             a3 == IF m.Body # Nil THEN analyzeBlock(a2, m.Body) ELSE a2
         IN  [a3 EXCEPT !.env = Tail(a3.env)]

\* func (an *Analyzer) analyzeMethod(m *MethodDecl)
analyzeMethod(a, m) ==
    LET a0 == [a EXCEPT !.env = NewEnv(a.env)]
        a1 == [a0 EXCEPT !.currentFun = lookupFunc(a0, m.Name)]
        a2 == insertParams(a1, m.Params, 1)
        a3 == IF m.Body # Nil THEN analyzeBlock(a2, m.Body) ELSE a2
    IN  [a3 EXCEPT !.env = Tail(a3.env)]

\* the loop over p.Methods that scans for duplicate method names
RECURSIVE scanMethods(_, _, _, _)
scanMethods(a, ms, i, seen) ==
    IF i > Len(ms)
    THEN a
    ELSE LET m  == ms[i]
             a1 == IF m.Name \in seen
                   THEN errorf(a, m, "DuplicateMethod", m.Name)
                   ELSE a
         IN  scanMethods(a1, ms, i + 1, seen \cup {m.Name})

\* the loop over p.Declarations of Analyze
RECURSIVE scanDeclarations(_, _, _, _)
scanDeclarations(a, ds, i, seenVars) ==
    IF i > Len(ds)
    THEN a
    ELSE LET d  == ds[i]
             a1 == IF d.Name \in seenVars
                   THEN errorf(a, d, "DuplicateDeclaration", d.Name)
                   ELSE a
             a2 == IF d.Value # Nil THEN checkExpr(a1, d.Value, FALSE).a ELSE a1
         IN  scanDeclarations(a2, ds, i + 1, seenVars \cup {d.Name})

\* _, ok := an.env.Table[Identifier("main")]
mainDeclared(a) == "main" \in DOMAIN a.env[1]

(***************************************************************************)
(* Analyze(p), one action per part of its body.                            *)
(***************************************************************************)
\* an := &Analyzer{env: p.Symbols}, then the duplicate-method scan
AnalyzeScanMethods ==
    /\ anPc = "start"
    /\ an' = scanMethods([env |-> prog.Symbols, errors |-> <<>>, currentFun |-> Nil],
                         prog.Methods, 1, {})
    /\ anPc' = "main"
    /\ UNCHANGED <<prog, anIdx, anResult, envVars, cgVars, bdVars>>

\* Check there is a main method declared
AnalyzeCheckMain ==
    /\ anPc = "main"
    /\ an' = IF ~mainDeclared(an) THEN errorf(an, prog, "MissingMain", "") ELSE an
    /\ anPc' = "decls"
    /\ UNCHANGED <<prog, anIdx, anResult, envVars, cgVars, bdVars>>

\* Top-level variable declarations and their initializers
AnalyzeDeclarations ==
    /\ anPc = "decls"
    /\ an' = scanDeclarations(an, prog.Declarations, 1, {})
    /\ anPc' = "methods"
    /\ anIdx' = 1
    /\ UNCHANGED <<prog, anResult, envVars, cgVars, bdVars>>

\* for _, m := range p.Methods { an.analyzeMethod(m) }: one iteration
AnalyzeMethod ==
    /\ anPc = "methods"
    /\ anIdx <= Len(prog.Methods)
    /\ an' = analyzeMethod(an, prog.Methods[anIdx])
    /\ anIdx' = anIdx + 1
    /\ UNCHANGED <<prog, anPc, anResult, envVars, cgVars, bdVars>>

\* if len(an.errors) > 0 { return an.errors[0] }; return nil
AnalyzeReturn ==
    /\ anPc = "methods"
    /\ anIdx > Len(prog.Methods)
    /\ anResult' = IF Len(an.errors) > 0 THEN an.errors[1] ELSE Nil
    /\ anPc' = "done"
    /\ UNCHANGED <<prog, an, anIdx, envVars, cgVars, bdVars>>

NextAnalyze ==
    \/ AnalyzeScanMethods
    \/ AnalyzeCheckMain
    \/ AnalyzeDeclarations
    \/ AnalyzeMethod
    \/ AnalyzeReturn

(***************************************************************************)
(* The symbol table a Program carries.  Builder.buildVarDecl and           *)
(* Builder.buildMethodDecl insert every top-level name into the root       *)
(* table, failing on a name that is already there; the method symbol they  *)
(* insert carries no FuncInfo.                                             *)
(***************************************************************************)
\* builder.symbolTable.Insert(name, Symbol{Type: t, isVar: true})
VarSymbol(d) == Symbol(d.Type, TRUE, Nil)

\* builder.symbolTable.Insert(name, Symbol{Type: t, isVar: false})
MethodSymbol(m) == Symbol(m.Return, FALSE, Nil)

\* A method symbol that carries the FuncInfo lookupFunc and checkCallExpr read.
RECURSIVE ParamInfos(_)
ParamInfos(ps) ==
    IF ps = <<>> THEN <<>>
    ELSE <<ParamInfo(ps[1].Name, ps[1].Type)>> \o ParamInfos(Tail(ps))

MethodSymbolWithFunc(m) ==
    Symbol(m.Return, FALSE,
           FuncInfo(m.Return, ParamInfos(m.Params), Len(m.Params)))

RECURSIVE InsertAll(_, _, _, _)
InsertAll(table, nodes, i, withFunc) ==
    IF i > Len(nodes)
    THEN table
    ELSE LET n   == nodes[i]
             sym == IF n.k = "VarDecl" THEN VarSymbol(n)
                    ELSE IF withFunc THEN MethodSymbolWithFunc(n)
                    ELSE MethodSymbol(n)
         IN  InsertAll(TablePut(table, n.Name, sym), nodes, i + 1, withFunc)

\* p.Symbols: the root Env after the top-level declarations were built
RootSymbols(decls, methods, withFunc) ==
    <<InsertAll(EmptyTable, decls \o methods, 1, withFunc)>>

(***************************************************************************)
(* Specification SpecAnalyze: Analyze run on the programs                  *)
(*     program { [integer main = 1;]  T f([integer x]) { S* }              *)
(*               [void main() { }] }                                       *)
(* with up to MaxAnStmts statements S among return; return 1; return true; *)
(* f(1); f(1, 2); g(); and T any type.  The symbol table is the one the    *)
(* builder registers, or the same table with a FuncInfo on every method.   *)
(***************************************************************************)
MaxAnStmts == 2

\* The statements a body may hold at a given line.
AnStmtPool(line) ==
    { ReturnStmt(Nil, line),
      ReturnStmt(IntLiteral(line), line),
      ReturnStmt(BoolLiteral(line), line),
      ExprStmt(CallExpr("f", <<IntLiteral(line)>>, line)),
      ExprStmt(CallExpr("f", <<IntLiteral(line), IntLiteral(line)>>, line)),
      ExprStmt(CallExpr("g", <<>>, line)) }

\* The statement sequences of length n; statement i stands on line 3 + i.
RECURSIVE AnStmtSeqs(_)
AnStmtSeqs(n) ==
    IF n = 0 THEN {<<>>}
    ELSE {Append(ss, st) : ss \in AnStmtSeqs(n - 1), st \in AnStmtPool(3 + n)}

AnBodies == UNION {AnStmtSeqs(n) : n \in 0..MaxAnStmts}

AnMethodsF ==
    { MethodDecl(ret, "f", params, Block(<<>>, ss, 3), 3) :
        ret \in TypeKinds,
        params \in {<<>>, <<Parameter(TypeInteger, "x")>>},
        ss \in AnBodies }

MainMethod == MethodDecl(TypeVoid, "main", <<>>, Block(<<>>, <<>>, 9), 9)

MainVariable == VarDecl(TypeInteger, "main", IntLiteral(2), 2)

AnPrograms ==
    { Program(decls, methods, RootSymbols(decls, methods, withFunc)) :
        decls \in {<<>>}, methods \in {<<f>> : f \in AnMethodsF} \cup
                                      {<<f, MainMethod>> : f \in AnMethodsF},
        withFunc \in BOOLEAN }
    \cup
    { Program(<<MainVariable>>, <<f>>, RootSymbols(<<MainVariable>>, <<f>>, withFunc)) :
        f \in AnMethodsF, withFunc \in BOOLEAN }

InitAnalyze ==
    /\ prog \in AnPrograms
    /\ an = Nil /\ anPc = "start" /\ anIdx = 0 /\ anResult = Nil
    /\ IdleEnv /\ IdleCg /\ IdleBd

SpecAnalyze == InitAnalyze /\ [][NextAnalyze]_vars

\* Whether the analyzer recorded the diagnostic kind for the node on line.
Recorded(kind, line) ==
    \E i \in 1..Len(an.errors) :
        an.errors[i].kind = kind /\ an.errors[i].line = line

\* The methods of the program and the statements of their bodies.
MethodsOf(p) == {p.Methods[i] : i \in 1..Len(p.Methods)}
StmtsOf(m)   == {m.Body.Stmts[i] : i \in 1..Len(m.Body.Stmts)}

\* The type of a literal, as the language defines it.
LiteralType(e) == IF e.k = "IntLiteral" THEN TypeInteger ELSE TypeBool

\* C2: for every return statement of a method body, Analyze records
\* UnexpectedReturnValue exactly when the method returns Void and the return
\* carries a value, MissingReturnValue exactly when the method does not return
\* Void and the return has no value, and ReturnTypeMismatch exactly when the
\* method does not return Void and the value's type differs from its return
\* type (so `bool f(){ return 1; }` is reported with ReturnTypeMismatch).
C2_ReturnDiagnostics ==
    anPc = "done" =>
        \A m \in MethodsOf(prog) : \A r \in StmtsOf(m) :
            r.k = "ReturnStmt" =>
                /\ Recorded("UnexpectedReturnValue", r.Line)
                      <=> (m.Return = TypeVoid /\ r.Value # Nil)
                /\ Recorded("MissingReturnValue", r.Line)
                      <=> (m.Return # TypeVoid /\ r.Value = Nil)
                /\ Recorded("ReturnTypeMismatch", r.Line)
                      <=> (/\ m.Return # TypeVoid
                           /\ r.Value # Nil
                           /\ LiteralType(r.Value) # m.Return)

\* C3: for every call, Analyze records UndeclaredCall exactly when the callee
\* is not a method declared in the program, and ArityMismatch exactly when it
\* is one and the number of arguments differs from its number of parameters
\* (so f(1, 2) against a one-parameter f is reported as ArityMismatch).
C3_CallDiagnostics ==
    anPc = "done" =>
        \A m \in MethodsOf(prog) : \A st \in StmtsOf(m) :
            st.k = "ExprStmt" =>
                LET c      == st.Expr
                    callee == {d \in MethodsOf(prog) : d.Name = c.Callee}
                IN  /\ Recorded("UndeclaredCall", c.Line) <=> (callee = {})
                    /\ Recorded("ArityMismatch", c.Line)
                          <=> (\E d \in callee : Len(c.Args) # Len(d.Params))

\* C4: Analyze records MissingMain exactly when the program declares no method
\* named main; a top-level variable named main does not count.
C4_MissingMain ==
    anPc = "done" =>
        (Recorded("MissingMain", prog.Line)
            <=> ~(\E m \in MethodsOf(prog) : m.Name = "main"))

(***************************************************************************)
(* The code generator (codeGen) and the untyped AST it walks.  Its Type    *)
(* enumeration is not the analyzer's TypeKind: TypeInt is 0 here.          *)
(***************************************************************************)
TypeInt    == 0
TypeBoolCg == 1
TypeVoidCg == 2

OpMul == 0
OpDiv == 1
OpAdd == 2
OpSub == 3

Decl(t, name, line)     == [k |-> "Decl", VarType |-> t, Name |-> name, Line |-> line]
Assign(name, value, line) ==
    [k |-> "Assign", Name |-> name, Value |-> value, Line |-> line]
Return(value, line)     == [k |-> "Return", Value |-> value, Line |-> line]
Skip(line)              == [k |-> "Skip", Line |-> line]

Identifier(name, line)  == [k |-> "Identifier", Name |-> name, Line |-> line]
IntLit(v, line)         == [k |-> "IntLiteral", Value |-> v, Line |-> line]
BoolLit(v, line)        == [k |-> "BoolLiteral", Value |-> v, Line |-> line]
Binary(kind, l, r, line) ==
    [k |-> "BinaryExpr", Kind |-> kind, Left |-> l, Right |-> r, Line |-> line]

\* VarInfo{Type, Offset}
VarInfo(t, off) == [Type |-> t, Offset |-> off]

\* CodeGenError{Line, Kind, Name, Have, Want}
CodeGenError(kind, line, name, have, want) ==
    [Kind |-> kind, Line |-> line, Name |-> name, Have |-> have, Want |-> want]

\* Faulty variant of HasErrors: the driver never sees the recorded errors.
HasErrorsNever(d) == FALSE

\* func (d *CodeGenDiagnostics) HasErrors() bool
HasErrors(d) == Len(d) > 0

\* The register file: regs: []string{"R0", "R1", "R2", "R3"}
Regs == <<"R0", "R1", "R2", "R3">>

\* Faulty variant of newCodeGen: the layout pass uses another slot width.
newCodeGenDrySlot(b, d, dry) ==
    [ b           |-> b,
      symtab      |-> EmptyTable,
      nextOffset  |-> 0,
      slotSize    |-> IF dry THEN 4 ELSE 8,
      diagnostics |-> d,
      abort       |-> FALSE,
      dryRun      |-> dry,
      free        |-> Regs ]

\* Faulty variant of newCodeGen: every declaration of the body has its slot
\* before the walk starts.
newCodeGenHoisting(b, d, dry) ==
    LET decls == SelectSeq(body.Statements, LAMBDA s : s.k = "Decl")
        first(n) == CHOOSE i \in 1..Len(decls) :
                        /\ decls[i].Name = n
                        /\ \A j \in 1..(i - 1) : decls[j].Name # n
    IN  [ b           |-> b,
          symtab      |-> [n \in {decls[i].Name : i \in 1..Len(decls)} |->
                              [Type |-> decls[first(n)].VarType,
                               Offset |-> 8 * first(n)]],
          nextOffset  |-> 0,
          slotSize    |-> 8,
          diagnostics |-> d,
          abort       |-> FALSE,
          dryRun      |-> dry,
          free        |-> Regs ]

\* func newCodeGen(b *strings.Builder, diags *CodeGenDiagnostics, dry bool) *codeGen
\* b is nil or the text written so far; diagnostics is what *diags holds.
newCodeGen(b, d, dry) ==
    [ b           |-> b,
      symtab      |-> EmptyTable,
      nextOffset  |-> 0,
      slotSize    |-> 8,
      diagnostics |-> d,
      abort       |-> FALSE,
      dryRun      |-> dry,
      free        |-> Regs ]

\* b := &strings.Builder{}
NewBuilder == [k |-> "Builder", text |-> <<>>]

\* Faulty variant of emit: the test of g.abort is missing.
emitWhenAborted(g, line) ==
    IF g.dryRun \/ g.b = Nil
    THEN g
    ELSE [g EXCEPT !.b.text = Append(@, line)]

\* func (g *codeGen) emit(line string); a line is its format and arguments
emit(g, line) ==
    IF g.dryRun \/ g.abort \/ g.b = Nil
    THEN g
    ELSE [g EXCEPT !.b.text = Append(@, line)]

\* func (g *codeGen) addErr(err CodeGenError)
addErr(g, err) ==
    [g EXCEPT !.diagnostics = Append(@, err), !.abort = TRUE]

errDuplicateDecl(g, line, name) ==
    addErr(g, CodeGenError("ErrDuplicateDecl", line, name, 0, 0))
errUseBefore(g, line, name) ==
    addErr(g, CodeGenError("ErrUseBeforeDeclare", line, name, 0, 0))
errTypeMismatch(g, line, name, have, want) ==
    addErr(g, CodeGenError("ErrTypeMismatch", line, name, have, want))
errUnknownStmt(g) == addErr(g, CodeGenError("ErrUnknownStmt", 0, "", 0, 0))
errUnknownExpr(g) == addErr(g, CodeGenError("ErrUnknownExpr", 0, "", 0, 0))
errNoRegisters(g) == addErr(g, CodeGenError("ErrNoRegisters", 0, "", 0, 0))

\* Faulty variant of allocVar: the "if g.abort" return is missing, so a duplicate
\* declaration is reported and allocated a slot all the same.
allocVarNoAbortCheck(g, name, t, line) ==
    LET g1 == IF name \in DOMAIN g.symtab
              THEN addErr(g, CodeGenError("ErrDuplicateDecl", line, name, 0, 0))
              ELSE g
    IN  [g1 EXCEPT !.nextOffset = @ + g1.slotSize,
                   !.symtab = TablePut(@, name,
                                       VarInfo(t, g1.nextOffset + g1.slotSize))]

\* Faulty variant of allocVar: the offset is taken before nextOffset is advanced.
allocVarPreIncrement(g, name, t, line) ==
    LET g1 == IF name \in DOMAIN g.symtab
              THEN addErr(g, CodeGenError("ErrDuplicateDecl", line, name, 0, 0))
              ELSE g
    IN  IF g1.abort
        THEN g1
        ELSE [g1 EXCEPT !.nextOffset = @ + g1.slotSize,
                        !.symtab = TablePut(@, name, VarInfo(t, g1.nextOffset))]

\* func (g *codeGen) allocVar(name string, t Type, line int) VarInfo
\* (every caller drops the VarInfo)
allocVar(g, name, t, line) ==
    LET g1 == IF name \in DOMAIN g.symtab
              THEN errDuplicateDecl(g, line, name)
              ELSE g
    IN  IF g1.abort
        THEN g1
        ELSE [g1 EXCEPT !.nextOffset = @ + g1.slotSize,
                        !.symtab = TablePut(@, name,
                                            VarInfo(t, g1.nextOffset + g1.slotSize))]

\* (string, bool) together with the generator after the call
RegRes(g, r, ok) == [g |-> g, r |-> r, ok |-> ok]

\* Faulty variant of allocReg: the register handed out stays in the free list.
allocRegNoPop(g) ==
    IF Len(g.free) = 0
    THEN RegRes(errNoRegisters(g), "", FALSE)
    ELSE RegRes(g, g.free[Len(g.free)], TRUE)

\* func (g *codeGen) allocReg() (string, bool)
allocReg(g) ==
    IF Len(g.free) = 0
    THEN RegRes(errNoRegisters(g), "", FALSE)
    ELSE RegRes([g EXCEPT !.free = SubSeq(@, 1, Len(@) - 1)],
                g.free[Len(g.free)], TRUE)

\* Faulty variant of freeReg: the register is not returned to the free list.
freeRegLeak(g, r) == g

\* func (g *codeGen) freeReg(r string)
freeReg(g, r) ==
    IF r = "" THEN g ELSE [g EXCEPT !.free = Append(@, r)]

\* func opMnemonic(k BinaryOpKind) string
opMnemonic(kind) ==
    CASE kind = OpMul -> "MUL"
      [] kind = OpDiv -> "DIV"
      [] kind = OpAdd -> "ADD"
      [] kind = OpSub -> "SUB"
      [] OTHER        -> "NOP"

\* func (g *codeGen) evalExprToReg(e Expr) (string, bool)
RECURSIVE evalExprToReg(_, _)
evalExprToReg(g, e) ==
    IF g.abort
    THEN RegRes(g, "", FALSE)
    ELSE
    CASE e.k = "Identifier" ->
            IF e.Name \notin DOMAIN g.symtab
            THEN RegRes(errUseBefore(g, e.Line, e.Name), "", FALSE)
            ELSE LET a == allocReg(g)
                 IN  IF ~a.ok
                     THEN RegRes(a.g, "", FALSE)
                     ELSE RegRes(emit(a.g, <<"MOV %s, [BP-%d] ; %s", a.r,
                                             g.symtab[e.Name].Offset, e.Name>>),
                                 a.r, TRUE)
      [] e.k = "IntLiteral" ->
            LET a == allocReg(g)
            IN  IF ~a.ok
                THEN RegRes(a.g, "", FALSE)
                ELSE RegRes(emit(a.g, <<"MOV %s, %d", a.r, e.Value>>), a.r, TRUE)
      [] e.k = "BoolLiteral" ->
            LET a == allocReg(g)
            IN  IF ~a.ok
                THEN RegRes(a.g, "", FALSE)
                ELSE RegRes(emit(a.g, <<"MOV %s, %d", a.r,
                                        IF e.Value THEN 1 ELSE 0>>), a.r, TRUE)
      [] e.k = "BinaryExpr" ->
            LET l == evalExprToReg(g, e.Left)
            IN  IF ~l.ok
                THEN RegRes(l.g, "", FALSE)
                ELSE LET r == evalExprToReg(l.g, e.Right)
                     IN  IF ~r.ok
                         THEN RegRes(freeReg(r.g, l.r), "", FALSE)
                         ELSE LET mn == opMnemonic(e.Kind)
                              IN  IF mn = "NOP"
                                  THEN RegRes(freeReg(freeReg(errUnknownExpr(r.g),
                                                              l.r), r.r),
                                              "", FALSE)
                                  ELSE RegRes(freeReg(emit(r.g, <<"%s %s, %s",
                                                                  mn, l.r, r.r>>),
                                                      r.r),
                                              l.r, TRUE)
      [] OTHER -> RegRes(errUnknownExpr(g), "", FALSE)

\* (Type, bool) together with the generator after the call
TypeRes(g, t, ok) == [g |-> g, t |-> t, ok |-> ok]

\* Faulty variant of typeOfExpr: every expression is taken for an int.
typeOfExprAlwaysInt(g, e) == TypeRes(g, TypeInt, TRUE)

\* func (g *codeGen) typeOfExpr(e Expr) (Type, bool)
RECURSIVE typeOfExpr(_, _)
typeOfExpr(g, e) ==
    CASE e.k = "Identifier" ->
            IF e.Name \in DOMAIN g.symtab
            THEN TypeRes(g, g.symtab[e.Name].Type, TRUE)
            ELSE TypeRes(errUseBefore(g, e.Line, e.Name), TypeInt, FALSE)
      [] e.k = "IntLiteral"  -> TypeRes(g, TypeInt, TRUE)
      [] e.k = "BoolLiteral" -> TypeRes(g, TypeBoolCg, TRUE)
      [] e.k = "BinaryExpr"  ->
            LET l == typeOfExpr(g, e.Left)
                r == typeOfExpr(l.g, e.Right)
            IN  TypeRes(r.g, TypeInt, l.ok /\ r.ok)
      [] OTHER -> TypeRes(errUnknownExpr(g), TypeInt, FALSE)

\* The three lines of "; epilogue" that follow the comment line
emitEpilogue(g) ==
    emit(emit(emit(emit(g, <<"; epilogue">>), <<"MOV SP, BP">>), <<"POP BP">>),
         <<"RET">>)

\* func (g *codeGen) generateStmt(s Stmt)
generateStmt(g, s) ==
    IF g.abort
    THEN g
    ELSE
    CASE s.k = "Decl" -> allocVar(g, s.Name, s.VarType, s.Line)
      [] s.k = "Assign" ->
            IF s.Name \notin DOMAIN g.symtab
            THEN errUseBefore(g, s.Line, s.Name)
            ELSE LET info == g.symtab[s.Name]
                     v    == typeOfExpr(g, s.Value)
                 IN  IF ~v.ok
                     THEN v.g
                     ELSE IF v.t # info.Type
                     THEN errTypeMismatch(v.g, s.Line, s.Name, v.t, info.Type)
                     ELSE LET e == evalExprToReg(v.g, s.Value)
                          IN  IF ~e.ok
                              THEN e.g
                              ELSE freeReg(emit(e.g, <<"MOV [BP-%d], %s",
                                                       info.Offset, e.r>>), e.r)
      [] s.k = "Return" ->
            IF s.Value # Nil
            THEN LET e == evalExprToReg(g, s.Value)
                 IN  IF ~e.ok
                     THEN e.g
                     ELSE LET g1 == IF e.r # "R0"
                                    THEN emit(e.g, <<"MOV R0, %s", e.r>>)
                                    ELSE e.g
                          IN  emitEpilogue(freeReg(g1, e.r))
            ELSE emitEpilogue(g)
      [] s.k = "Skip" -> emit(g, <<"; skip">>)
      [] OTHER -> errUnknownStmt(g)

\* pass2.emit(".text") ... pass2.emit("\tSUB SP, frame")
emitPrologue(g, frameSize) ==
    LET g1 == emit(emit(emit(emit(emit(emit(g, <<".text">>), <<".global main">>),
                   <<"main:">>), <<"; prologue">>), <<"PUSH BP">>), <<"MOV BP, SP">>)
    IN  IF frameSize > 0 THEN emit(g1, <<"SUB SP, %d", frameSize>>) ELSE g1

(***************************************************************************)
(* generateAssemblyWithDiagnostics(p): one action per step of its body,    *)
(* and one per iteration of generateBlock's loop in either pass.           *)
(***************************************************************************)
\* (string, CodeGenDiagnostics); the text is the sequence of its lines
AsmResult(text, d) == [asm |-> text, diags |-> d]

\* Faulty variant of BlockDone: the loop ignores g.abort and walks the whole block.
BlockDoneWalkAll(g, stmts, i) == i > Len(stmts)

\* Faulty variant of BlockDone: the loop ends after a return statement.
BlockDoneAfterReturn(g, stmts, i) ==
    \/ g.abort
    \/ i > Len(stmts)
    \/ i > 1 /\ stmts[i - 1].k = "Return"

\* generateBlock leaves its loop: the block is walked, or g.abort is set
BlockDone(g, stmts, i) == g.abort \/ i > Len(stmts)

\* if p == nil || p.Main == nil || p.Main.Body == nil
CgEmpty ==
    /\ cgPc = "start"
    /\ body = Nil
    /\ cgResult' = AsmResult(<< <<"; <empty program>">> >>, diags)
    /\ cgPc' = "done"
    /\ UNCHANGED <<body, pass1, pass2, diags, frame, cgIdx, envVars, anVars, bdVars>>

\* pass1 := newCodeGen(nil, &diags, true)
CgStartPass1 ==
    /\ cgPc = "start"
    /\ body # Nil
    /\ pass1' = newCodeGen(Nil, diags, TRUE)
    /\ cgPc' = "pass1"
    /\ cgIdx' = 1
    /\ UNCHANGED <<body, pass2, diags, frame, cgResult, envVars, anVars, bdVars>>

\* pass1.generateBlock(p.Main.Body): one iteration
CgPass1Stmt ==
    /\ cgPc = "pass1"
    /\ ~BlockDone(pass1, body.Statements, cgIdx)
    /\ pass1' = generateStmt(pass1, body.Statements[cgIdx])
    /\ diags' = pass1'.diagnostics
    /\ cgIdx' = cgIdx + 1
    /\ UNCHANGED <<body, pass2, frame, cgPc, cgResult, envVars, anVars, bdVars>>

\* if diags.HasErrors() { return "", diags }
CgPass1Failed ==
    /\ cgPc = "pass1"
    /\ BlockDone(pass1, body.Statements, cgIdx)
    /\ HasErrors(diags)
    /\ cgResult' = AsmResult(<<>>, diags)
    /\ cgPc' = "done"
    /\ UNCHANGED <<body, pass1, pass2, diags, frame, cgIdx, envVars, anVars, bdVars>>

\* frame := pass1.nextOffset; pass2 := newCodeGen(b, &diags, false); prologue
CgStartPass2 ==
    /\ cgPc = "pass1"
    /\ BlockDone(pass1, body.Statements, cgIdx)
    /\ ~HasErrors(diags)
    /\ frame' = pass1.nextOffset
    /\ pass2' = emitPrologue(newCodeGen(NewBuilder, diags, FALSE), pass1.nextOffset)
    /\ cgPc' = "pass2"
    /\ cgIdx' = 1
    /\ UNCHANGED <<body, pass1, diags, cgResult, envVars, anVars, bdVars>>

\* pass2.generateBlock(p.Main.Body): one iteration
CgPass2Stmt ==
    /\ cgPc = "pass2"
    /\ ~BlockDone(pass2, body.Statements, cgIdx)
    /\ pass2' = generateStmt(pass2, body.Statements[cgIdx])
    /\ diags' = pass2'.diagnostics
    /\ cgIdx' = cgIdx + 1
    /\ UNCHANGED <<body, pass1, frame, cgPc, cgResult, envVars, anVars, bdVars>>

\* if diags.HasErrors() { return "", diags }; return b.String(), diags
CgFinish ==
    /\ cgPc = "pass2"
    /\ BlockDone(pass2, body.Statements, cgIdx)
    /\ cgResult' = IF HasErrors(diags)
                   THEN AsmResult(<<>>, diags)
                   ELSE AsmResult(pass2.b.text, diags)
    /\ cgPc' = "done"
    /\ UNCHANGED <<body, pass1, pass2, diags, frame, cgIdx, envVars, anVars, bdVars>>

NextCodeGen ==
    \/ CgEmpty
    \/ CgStartPass1
    \/ CgPass1Stmt
    \/ CgPass1Failed
    \/ CgStartPass2
    \/ CgPass2Stmt
    \/ CgFinish

(***************************************************************************)
(* Specification SpecCodeGen: the generator run on                         *)
(*   - every body of up to MaxCgStmts statements of CgStmtPool,            *)
(*   - int a; followed by a return or an assignment to a of every          *)
(*     expression tree with up to MaxLeaves operands,                      *)
(*   - N <= MaxSum declarations followed by the return of their sum,       *)
(*   - the program without a main body.                                    *)
(***************************************************************************)
MaxCgStmts == 3
MaxLeaves  == 6
MaxSum     == 4

\* The statements a body may hold at a given line; Nil is a statement of a
\* kind generateStmt does not know.
CgStmtPool(line) ==
    { Decl(TypeInt, "a", line),
      Decl(TypeBoolCg, "b", line),
      Assign("a", IntLit(1, line), line),
      Assign("a", Binary(OpAdd, Identifier("b", line), Identifier("b", line), line), line),
      Assign("b", Identifier("a", line), line),
      Return(Nil, line),
      Return(Identifier("a", line), line),
      Skip(line),
      Nil }

RECURSIVE CgStmtSeqs(_)
CgStmtSeqs(n) ==
    IF n = 0 THEN {<<>>}
    ELSE {Append(ss, st) : ss \in CgStmtSeqs(n - 1), st \in CgStmtPool(n)}

\* The expression trees with exactly n operands, all of them leaf.
RECURSIVE ExprTrees(_, _)
ExprTrees(n, leaf) ==
    IF n = 1 THEN {leaf}
    ELSE UNION { { Binary(OpAdd, l, r, leaf.Line) :
                     l \in ExprTrees(i, leaf), r \in ExprTrees(n - i, leaf) } :
                 i \in 1..(n - 1) }

DeepExprs ==
    UNION { ExprTrees(n, leaf) :
              n \in 1..MaxLeaves, leaf \in {Identifier("a", 2), IntLit(1, 2)} }

DeepBodies ==
    { <<Decl(TypeInt, "a", 1), st>> :
        st \in {Return(e, 2) : e \in DeepExprs}
               \cup {Assign("a", e, 2) : e \in DeepExprs} }

SumNames == <<"a", "b", "c", "d", "e", "f">>

\* ((n1 + n2) + ...) + nN
RECURSIVE LeftSum(_, _)
LeftSum(n, line) ==
    IF n = 1 THEN Identifier(SumNames[1], line)
    ELSE Binary(OpAdd, LeftSum(n - 1, line), Identifier(SumNames[n], line), line)

SumBody(n) ==
    [i \in 1..n |-> Decl(TypeInt, SumNames[i], i)]
        \o <<Return(LeftSum(n, n + 1), n + 1)>>

SumBodies == {SumBody(n) : n \in 1..MaxSum}

\* Block{Statements}
CgBlock(stmts) == [k |-> "Block", Statements |-> stmts]

CgBodies ==
    {Nil} \cup
    { CgBlock(ss) :
        ss \in UNION {CgStmtSeqs(n) : n \in 0..MaxCgStmts}
               \cup DeepBodies \cup SumBodies }

InitCodeGen ==
    /\ body \in CgBodies
    /\ pass1 = Nil /\ pass2 = Nil /\ diags = <<>> /\ frame = 0
    /\ cgPc = "start" /\ cgIdx = 0 /\ cgResult = Nil
    /\ IdleEnv /\ IdleAn /\ IdleBd

SpecCodeGen == InitCodeGen /\ [][NextCodeGen]_vars

\* The diagnostics of a kind, and the statements of a kind, counted.
CountDiags(kind) == Cardinality({i \in 1..Len(diags) : diags[i].Kind = kind})

CountStmts(kind) ==
    Cardinality({i \in 1..Len(body.Statements) : body.Statements[i].k = kind})

\* The lines of a text written with the given format.
CountLines(text, format) ==
    Cardinality({i \in 1..Len(text) : text[i][1] = format})

\* The text opens with the prologue for the frame size n.
HasPrologue(text, n) ==
    /\ Len(text) >= 6
    /\ SubSeq(text, 1, 6) = << <<".text">>, <<".global main">>, <<"main:">>,
                               <<"; prologue">>, <<"PUSH BP">>, <<"MOV BP, SP">> >>
    /\ IF n > 0
       THEN /\ Len(text) >= 7
            /\ text[7][1] = "SUB SP, %d"
            /\ text[7][2] = n
            /\ CountLines(text, "SUB SP, %d") = 1
       ELSE CountLines(text, "SUB SP, %d") = 0

\* The text holds the prologue and the code of every statement of the body.
CompleteText(text) ==
    /\ HasPrologue(text, frame)
    /\ CountLines(text, "RET") = CountStmts("Return")
    /\ CountLines(text, "; epilogue") = CountStmts("Return")
    /\ CountLines(text, "MOV [BP-%d], %s") = CountStmts("Assign")
    /\ CountLines(text, "; skip") = CountStmts("Skip")

\* C5: generateAssemblyWithDiagnostics never returns both text and
\* diagnostics: for a program with a main body, either there is no diagnostic
\* and the text is the complete prologue-plus-body assembly, or there are
\* diagnostics and the text is empty.
C5_AllOrNothing ==
    (cgPc = "done" /\ body # Nil) =>
        /\ cgResult.diags = diags
        /\ \/ diags = <<>> /\ CompleteText(cgResult.asm)
           \/ diags # <<>> /\ cgResult.asm = <<>>

\* A compilation whose first statement emits and whose later statement fails:
\* the diagnostics are returned and no text is.
C5_Witness ==
    /\ cgPc = "done" /\ body # Nil
    /\ Len(body.Statements) >= 2
    /\ body.Statements[1].k = "Skip"
    /\ diags # <<>>
    /\ cgResult.diags = diags
    /\ cgResult.asm = <<>>

\* C6: when the layout pass records no error, the emission pass ends with the
\* same symbol table and the same nextOffset, records no diagnostic of its
\* own, and the prologue's SUB SP, n carries that nextOffset.
C6_PassesAgree ==
    (cgPc = "done" /\ body # Nil /\ pass1.diagnostics = <<>>) =>
        /\ pass2 # Nil
        /\ pass2.symtab = pass1.symtab
        /\ pass2.nextOffset = pass1.nextOffset
        /\ diags = <<>>
        /\ frame = pass1.nextOffset
        /\ HasPrologue(cgResult.asm, pass1.nextOffset)

\* An emission pass that laid out two variables after an error-free layout pass.
C6_Witness ==
    /\ cgPc = "done" /\ body # Nil
    /\ pass1.diagnostics = <<>>
    /\ pass2 # Nil
    /\ Cardinality(DOMAIN pass2.symtab) = 2
    /\ pass2.nextOffset = 16
    /\ cgResult.asm[7] = <<"SUB SP, %d", 16>>

\* The generator of the running pass, and the statement it is handed next.
CurGen == IF cgPc = "pass1" THEN pass1 ELSE pass2

Walking ==
    /\ cgPc \in {"pass1", "pass2"}
    /\ ~BlockDone(CurGen, body.Statements, cgIdx)

DuplicateDeclNext ==
    /\ Walking
    /\ body.Statements[cgIdx].k = "Decl"
    /\ body.Statements[cgIdx].Name \in DOMAIN CurGen.symtab

\* C7: a declaration whose name already has a slot records
\* DuplicateDeclaration and allocates no new slot (nextOffset and the symbol
\* table, so the first declaration's offset, are unchanged), and the
\* compilation produces no assembly.
C7_DuplicateDecl ==
    /\ [][DuplicateDeclNext =>
            /\ diags' = Append(diags,
                               CodeGenError("ErrDuplicateDecl",
                                            body.Statements[cgIdx].Line,
                                            body.Statements[cgIdx].Name, 0, 0))
            /\ CurGen'.nextOffset = CurGen.nextOffset
            /\ CurGen'.symtab = CurGen.symtab
            /\ CurGen'.abort]_vars
    /\ []((cgPc = "done" /\ CountDiags("ErrDuplicateDecl") > 0)
             => cgResult.asm = <<>>)

\* A compilation that ended on a duplicate of the second of two variables.
C7_Witness ==
    /\ cgPc = "done" /\ body # Nil
    /\ CountDiags("ErrDuplicateDecl") = 1
    /\ pass1.nextOffset = 16
    /\ diags[1].Name = "b"
    /\ pass1.symtab["b"].Offset = 16
    /\ cgResult.asm = <<>>

\* The declarations of the body whose name an earlier declaration has.
DuplicateDecls ==
    {i \in 1..Len(body.Statements) :
        /\ body.Statements[i].k = "Decl"
        /\ \E j \in 1..(i - 1) :
              /\ body.Statements[j].k = "Decl"
              /\ body.Statements[j].Name = body.Statements[i].Name}

Aborted(g) == g # Nil /\ g.abort

RECURSIVE Need(_)
Need(e) ==
    IF e.k = "BinaryExpr" THEN Max(Need(e.Left), 1 + Need(e.Right)) ELSE 1

\* The expression is built from the variable a and integer literals.
RECURSIVE OverA(_)
OverA(e) ==
    CASE e.k = "BinaryExpr" -> OverA(e.Left) /\ OverA(e.Right)
      [] e.k = "Identifier" -> e.Name = "a"
      [] e.k = "IntLiteral" -> TRUE
      [] OTHER              -> FALSE

\* int a; followed by one return or assignment to a of such an expression
OneExprBody ==
    /\ body # Nil
    /\ Len(body.Statements) = 2
    /\ body.Statements[1] = Decl(TypeInt, "a", 1)
    /\ body.Statements[2].k \in {"Return", "Assign"}
    /\ body.Statements[2].k = "Assign" => body.Statements[2].Name = "a"
    /\ body.Statements[2].Value # Nil
    /\ OverA(body.Statements[2].Value)

\* a + (a + (a + (a + a)))
RightChain5 ==
    LET a == Identifier("a", 2)
    IN  Binary(OpAdd, a, Binary(OpAdd, a, Binary(OpAdd, a, Binary(OpAdd, a, a, 2), 2), 2), 2)

\* ((a + a) + (a + a)) + (a + a)
Balanced6 ==
    LET a  == Identifier("a", 2)
        aa == Binary(OpAdd, a, a, 2)
    IN  Binary(OpAdd, Binary(OpAdd, aa, aa, 2), aa, 2)

\* C9: an expression over declared variables and literals reports
\* RegisterExhaustion exactly when need > 4 and compiles exactly when
\* need <= 4; so ((a+b)+(c+d))+(e+f) compiles and a right-nested chain of
\* five operands reports RegisterExhaustion.
C9_RegisterNeed ==
    (cgPc = "done" /\ OneExprBody) =>
        LET e == body.Statements[2].Value
        IN  /\ (CountDiags("ErrNoRegisters") > 0) <=> (Need(e) > 4)
            /\ (diags = <<>>) <=> (Need(e) <= 4)
            /\ (cgResult.asm # <<>>) <=> (Need(e) <= 4)
            /\ e = Balanced6 => diags = <<>>
            /\ e = RightChain5 => CountDiags("ErrNoRegisters") = 1

\* The right-nested chain of five operands, refused for want of a register.
C9_Witness ==
    /\ cgPc = "done" /\ OneExprBody
    /\ body.Statements[2].Value = RightChain5
    /\ CountDiags("ErrNoRegisters") = 1
    /\ cgResult.asm = <<>>

\* The free list holds each of R0..R3 exactly once.
AllFree(g) ==
    /\ Len(g.free) = 4
    /\ {g.free[i] : i \in 1..4} = {Regs[i] : i \in 1..4}

\* C10: N declarations of distinct names followed by a return of their
\* left-associated sum allocate exactly N slots (frame size 8N, offsets 8,
\* 16, ..., 8N in declaration order) and end with all 4 registers free.
C10_SumRoundTrip ==
    \A n \in 1..MaxSum :
        (cgPc = "done" /\ body = CgBlock(SumBody(n))) =>
            /\ diags = <<>>
            /\ frame = 8 * n
            /\ \A g \in {pass1, pass2} :
                  /\ g.nextOffset = 8 * n
                  /\ DOMAIN g.symtab = {SumNames[i] : i \in 1..n}
                  /\ \A i \in 1..n : g.symtab[SumNames[i]].Offset = 8 * i
                  /\ AllFree(g)
            /\ cgResult.asm[7] = <<"SUB SP, %d", 8 * n>>

\* The sum of three variables, compiled.
C10_Witness ==
    /\ cgPc = "done"
    /\ body = CgBlock(SumBody(3))
    /\ frame = 24
    /\ Len(cgResult.asm) > 7

(***************************************************************************)
(* The builder (src/builder.go) and the concrete syntax tree it walks.     *)
(* A tree node is a record: k is Kind(), text the source text it spans,    *)
(* line its start row + 1, type / identifier / value the children the      *)
(* grammar labels with these field names (Nil when the node has none),     *)
(* named the named children and all every child, anonymous tokens          *)
(* included.  No rule of src/grammar.js has a field "condition".           *)
(***************************************************************************)
Node(kind, text, line, type, id, value, named, all) ==
    [k |-> kind, text |-> text, line |-> line, type |-> type,
     identifier |-> id, value |-> value, named |-> named, all |-> all]

\* An anonymous token such as integer, bool, void, extern or "-".
Token(kind) == Node(kind, kind, 0, Nil, Nil, Nil, <<>>, <<>>)

\* n.ChildByFieldName(name)
ChildByFieldName(n, name) ==
    CASE name = "type"       -> n.type
      [] name = "identifier" -> n.identifier
      [] name = "value"      -> n.value
      [] OTHER               -> Nil

\* n.NamedChild(i), n.NamedChildCount(), n.Child(i), n.ChildCount()
NamedChildCount(n) == Len(n.named)
NamedChild(n, i) == IF i < Len(n.named) THEN n.named[i + 1] ELSE Nil
ChildCount(n) == Len(n.all)
Child(n, i) == IF i < Len(n.all) THEN n.all[i + 1] ELSE Nil

\* func text(node, src) string and func nodeLine(n) int
text(n) == IF n = Nil THEN "" ELSE n.text
nodeLine(n) == IF n = Nil THEN 0 ELSE n.line

\* The error values the builder returns: the message and the name it holds.
BuildError(msg, name) == [msg |-> msg, name |-> name]

\* (node, error) together with the builder after the call.  b.calls is the
\* record of what the walk did so far: every buildVarDecl that reached its
\* table test, every identifier buildExpr resolved, every error created.
BRes(b, node, err) == [b |-> b, node |-> node, err |-> err]

Log(b, call) == [b EXCEPT !.calls = Append(@, call)]

\* return nil, fmt.Errorf(...)
Fail(b, msg, name) ==
    BRes(Log(b, [op |-> "error", msg |-> msg, name |-> name]), Nil,
         BuildError(msg, name))

\* func (builder Builder) buildType(n *sitter.Node) (TypeKind, error)
buildType(b, n) ==
    IF n = Nil THEN Fail(b, "nil type node", "")
    ELSE CASE n.k = "void"    -> BRes(b, TypeVoid, Nil)
           [] n.k = "bool"    -> BRes(b, TypeBool, Nil)
           [] n.k = "integer" -> BRes(b, TypeInteger, Nil)
           [] OTHER           -> Fail(b, "unknown type node", n.k)

BinaryKinds ==
    {"int_sum", "int_sub", "int_prod", "int_div", "rel_eq", "rel_lt",
     "rel_gt", "bool_conjunction", "bool_disjunction"}

\* the switch n.Kind() of buildBinaryExpr
BinOpOf(kind) ==
    CASE kind = "int_sum"          -> BinAdd
      [] kind = "int_sub"          -> BinSub
      [] kind = "int_prod"         -> BinMul
      [] kind = "int_div"          -> BinDiv
      [] kind = "rel_eq"           -> BinEq
      [] kind = "rel_lt"           -> BinLT
      [] kind = "rel_gt"           -> BinGT
      [] kind = "bool_conjunction" -> BinAnd
      [] kind = "bool_disjunction" -> BinOr

RECURSIVE buildExpr(_, _)
RECURSIVE buildArgs(_, _, _, _)
RECURSIVE buildBlockChildren(_, _, _, _)
RECURSIVE buildBlock(_, _)

\* if err != nil { return nil, err }, then the rest of the function on the
\* result r of the call
OnOk(r, rest(_)) == IF r.err # Nil THEN r ELSE rest(r)

\* func (builder Builder) mustExpr(n *sitter.Node) Expr
dropErr(r) == BRes(r.b, r.node, Nil)

mustExpr(b, n) == dropErr(buildExpr(b, n))

\* the loop over the named children of buildCallExpr, from child i on
buildArgs(b, n, i, args) ==
    IF i >= NamedChildCount(n)
    THEN BRes(b, args, Nil)
    ELSE IF NamedChild(n, i).k = "identifier" /\ i = 0
         THEN buildArgs(b, n, i + 1, args)
         ELSE OnOk(buildExpr(b, NamedChild(n, i)),
                   LAMBDA r : buildArgs(r.b, n, i + 1, Append(args, r.node)))

\* func (builder Builder) buildCallExpr(n *sitter.Node) (Expr, error)
buildCallExpr(b, n) ==
    OnOk(buildArgs(b, n, 0, <<>>),
         LAMBDA r : BRes(r.b, CallExpr(text(Child(n, 0)), r.node, nodeLine(n)),
                         Nil))

\* func (builder Builder) buildBinaryExpr(n *sitter.Node) (Expr, error)
buildBinaryRight(n, l) ==
    OnOk(buildExpr(l.b, NamedChild(n, 1)),
         LAMBDA r : BRes(r.b, BinaryExpr(BinOpOf(n.k), l.node, r.node,
                                         nodeLine(n)), Nil))

buildBinaryExpr(b, n) ==
    OnOk(buildExpr(b, NamedChild(n, 0)), LAMBDA l : buildBinaryRight(n, l))

\* func (builder Builder) buildUnaryExpr(n *sitter.Node) (Expr, error)
buildUnaryExpr(b, n) ==
    OnOk(buildExpr(b, Child(n, 1)),
         LAMBDA r :
            CASE text(Child(n, 0)) = "-" ->
                    BRes(r.b, UnaryExpr(UnaryNeg, r.node, nodeLine(n)), Nil)
              [] text(Child(n, 0)) = "!" ->
                    BRes(r.b, UnaryExpr(UnaryNot, r.node, nodeLine(n)), Nil)
              [] OTHER -> Fail(r.b, "unknown unary op", text(Child(n, 0))))

\* case "identifier" of buildExpr, r being symbolTable.Lookup(name)
buildIdentifier(b, n, r) ==
    LET name == text(n)
        node == IdentExpr(name, r.sym.Type, nodeLine(n))
        b1   == Log(b, [op |-> "identifier", name |-> name,
                        env |-> b.symbolTable,
                        node |-> IF r.ok THEN node ELSE Nil])
    IN  IF ~r.ok
        THEN Fail(b1, "could not resolve type of", name)
        ELSE BRes(b1, node, Nil)

\* case "(" of buildExpr, r being what mustExpr returned
buildParen(n, r) == BRes(r.b, ParenExpr(r.node, nodeLine(n)), Nil)

\* func (builder Builder) buildExpr(n *sitter.Node) (Expr, error)
buildExpr(b, n) ==
    IF n = Nil THEN Fail(b, "nil expression node", "")
    ELSE CASE n.k = "num" -> BRes(b, IntLiteral(nodeLine(n)), Nil)
           [] n.k \in {"true", "false"} -> BRes(b, BoolLiteral(nodeLine(n)), Nil)
           [] n.k = "identifier" ->
                buildIdentifier(b, n, Lookup(b.symbolTable, text(n)))
           [] n.k = "method_call" -> buildCallExpr(b, n)
           [] n.k \in BinaryKinds -> buildBinaryExpr(b, n)
           [] n.k = "unary_expression" -> buildUnaryExpr(b, n)
           [] n.k = "(" -> buildParen(n, mustExpr(b, NamedChild(n, 0)))
           [] OTHER -> Fail(b, "unhandled expression node type", n.k)

\* Faulty variant of declaredVar: the whole chain is searched.
declaredVarInChain(b, name) == Lookup(b.symbolTable, name).ok

\* _, ok := builder.symbolTable.Table[name] of buildVarDecl
declaredVar(b, name) == name \in DOMAIN b.symbolTable[1]

\* Faulty variant of declaredMethod: only another method is a clash.
declaredMethodOnly(b, name) ==
    /\ name \in DOMAIN b.symbolTable[1]
    /\ ~b.symbolTable[1][name].isVar

\* _, ok := builder.symbolTable.Table[name] of buildMethodDecl
declaredMethod(b, name) == name \in DOMAIN b.symbolTable[1]

\* buildVarDecl from its table test on: t is the built type, val what
\* buildExpr returned for the initializer
insertVarDecl(n, t, name, val) ==
    LET ok   == declaredVar(val.b, name)
        b1   == IF ok
                THEN val.b
                ELSE [val.b EXCEPT !.symbolTable =
                         Insert(@, name, Symbol(t.node, TRUE, Nil))]
        err  == IF ok THEN BuildError("cannot double declare", name)
                ELSE val.err
        b2   == Log(b1, [op |-> "buildVarDecl", name |-> name,
                         type |-> t.node,
                         value |-> ChildByFieldName(n, "value"),
                         env |-> val.b.symbolTable, err |-> err,
                         after |-> b1.symbolTable])
    IN  IF ok
        THEN Fail(b2, "cannot double declare", name)
        ELSE IF val.err # Nil
             THEN BRes(b2, Nil, val.err)
             ELSE BRes(b2, VarDecl(t.node, name, val.node, nodeLine(n)), Nil)

\* func (builder Builder) buildVarDecl(n *sitter.Node) (*VarDecl, error)
buildVarDecl(b, n) ==
    OnOk(buildType(b, ChildByFieldName(n, "type")),
         LAMBDA t : insertVarDecl(n, t, text(ChildByFieldName(n, "identifier")),
                                  buildExpr(t.b, ChildByFieldName(n, "value"))))

\* func (builder Builder) buildParameter(n *sitter.Node) (*Parameter, error)
buildParameter(b, n) ==
    OnOk(buildType(b, ChildByFieldName(n, "type")),
         LAMBDA t : BRes(t.b, Parameter(t.node,
                                        text(ChildByFieldName(n, "identifier"))),
                         Nil))

\* the loop of buildMethodDecl that collects the parameters, from child i on
RECURSIVE buildParameters(_, _, _, _)
buildParameters(b, n, i, params) ==
    IF i >= NamedChildCount(n)
    THEN BRes(b, params, Nil)
    ELSE IF NamedChild(n, i).k = "parameter"
         THEN OnOk(buildParameter(b, NamedChild(n, i)),
                   LAMBDA p : buildParameters(p.b, n, i + 1,
                                              Append(params, p.node)))
         ELSE buildParameters(b, n, i + 1, params)

\* the first parameter whose name an earlier parameter has, or 0
RECURSIVE clash(_, _, _)
clash(params, i, paramNames) ==
    IF i > Len(params) THEN 0
    ELSE IF params[i].Name \in paramNames THEN i
    ELSE clash(params, i + 1, paramNames \cup {params[i].Name})

\* funcEnv.Insert(p.Name, Symbol{Type: p.Type, isVar: true}) for every p
RECURSIVE funcEnv(_, _, _)
funcEnv(e, params, i) ==
    IF i > Len(params) THEN e
    ELSE funcEnv(Insert(e, params[i].Name, Symbol(params[i].Type, TRUE, Nil)),
                 params, i + 1)

\* the loop of buildMethodDecl over all children: extern or block
RECURSIVE buildBody(_, _, _, _)
buildBody(b, n, i, blk) ==
    IF i >= ChildCount(n)
    THEN BRes(b, blk, Nil)
    ELSE IF Child(n, i).k = "block"
         THEN OnOk(buildBlock(b, Child(n, i)),
                   LAMBDA r : buildBody(r.b, n, i + 1, r.node))
         ELSE buildBody(b, n, i + 1, blk)

\* the end of buildMethodDecl: r is what the loop over the body returned, b1
\* the caller's builder after the method's name was inserted
buildMethodNode(n, t, name, b1, ps, r) ==
    IF r.err # Nil
    THEN BRes([r.b EXCEPT !.symbolTable = b1.symbolTable], Nil, r.err)
    ELSE BRes([r.b EXCEPT !.symbolTable = b1.symbolTable],
              MethodDecl(t.node, name, ps.node, r.node, nodeLine(n)), Nil)

\* buildMethodDecl after its parameters ps were collected: the duplicate
\* test, funcEnv and the body
buildMethodBody(n, t, name, b1, ps) ==
    IF ps.err # Nil
    THEN BRes([ps.b EXCEPT !.symbolTable = b1.symbolTable], Nil, ps.err)
    ELSE IF clash(ps.node, 1, {}) # 0
    THEN Fail(ps.b, "duplicate parameter name",
              ps.node[clash(ps.node, 1, {})].Name)
    ELSE buildMethodNode(n, t, name, b1, ps,
            buildBody(IF Len(ps.node) > 0
                      THEN [ps.b EXCEPT !.symbolTable =
                              funcEnv(NewEnv(@), ps.node, 1)]
                      ELSE ps.b,
                      n, 0, Nil))

\* buildMethodDecl from the loop over its parameters on; b1 is the builder
\* after the method's name was inserted
buildMethodParams(n, t, name, b1) ==
    buildMethodBody(n, t, name, b1, buildParameters(b1, n, 0, <<>>))

\* buildMethodDecl from its table test on
insertMethodDecl(n, t, name) ==
    IF declaredMethod(t.b, name)
    THEN Fail(t.b, "cannot redefine", name)
    ELSE buildMethodParams(
            n, t, name,
            [t.b EXCEPT !.symbolTable = Insert(@, name, Symbol(t.node, FALSE, Nil))])

\* func (builder Builder) buildMethodDecl(n *sitter.Node) (*MethodDecl, error)
\* The receiver is a copy: the caller's symbolTable keeps its chain, and sees
\* the insertion into the table the two share.
buildMethodDecl(b, n) ==
    OnOk(buildType(b, ChildByFieldName(n, "type")),
         LAMBDA t : insertMethodDecl(n, t, text(ChildByFieldName(n, "identifier"))))

\* func (builder Builder) buildAssignment(n *sitter.Node) (*Assignment, error)
buildAssignment(b, n) ==
    OnOk(buildExpr(b, ChildByFieldName(n, "value")),
         LAMBDA val : BRes(val.b,
                           Assignment(text(ChildByFieldName(n, "identifier")),
                                      val.node, nodeLine(n)), Nil))

\* func (builder Builder) buildReturnStmt(n *sitter.Node) (*ReturnStmt, error)
buildReturnStmt(b, n) ==
    IF ChildByFieldName(n, "value") = Nil
    THEN BRes(b, ReturnStmt(Nil, nodeLine(n)), Nil)
    ELSE OnOk(buildExpr(b, ChildByFieldName(n, "value")),
              LAMBDA val : BRes(val.b, ReturnStmt(val.node, nodeLine(n)), Nil))

\* blocks: the named children of kind block, in order
RECURSIVE blocks(_, _)
blocks(n, i) ==
    IF i >= NamedChildCount(n) THEN <<>>
    ELSE (IF NamedChild(n, i).k = "block" THEN <<NamedChild(n, i)>> ELSE <<>>)
         \o blocks(n, i + 1)

\* return &IfStmt{...}, nil
buildIfNode(n, cond, thenBlk, elseBlk) ==
    BRes(elseBlk.b, IfStmt(cond.node, thenBlk.node, elseBlk.node, nodeLine(n)),
         Nil)

\* elseBlk, _ = builder.buildBlock(blocks[1])
buildElse(n, cond, bs, thenBlk) ==
    buildIfNode(n, cond, thenBlk,
                IF Len(bs) > 1
                THEN buildBlock(thenBlk.b, bs[2])
                ELSE BRes(thenBlk.b, Nil, Nil))

\* thenBlk, _ = builder.buildBlock(blocks[0])
buildThen(n, cond, bs) ==
    buildElse(n, cond, bs,
              IF Len(bs) > 0
              THEN buildBlock(cond.b, bs[1])
              ELSE BRes(cond.b, Nil, Nil))

\* func (builder Builder) buildIfStmt(n *sitter.Node) (*IfStmt, error)
buildIfStmt(b, n) ==
    OnOk(buildExpr(b, IF ChildByFieldName(n, "condition") = Nil
                      THEN NamedChild(n, 0)
                      ELSE ChildByFieldName(n, "condition")),
         LAMBDA cond : buildThen(n, cond, blocks(n, 0)))

\* func (builder Builder) buildWhileStmt(n *sitter.Node) (*WhileStmt, error)
buildWhileBody(n, cond) ==
    OnOk(buildBlock(cond.b, NamedChild(n, NamedChildCount(n) - 1)),
         LAMBDA blk : BRes(blk.b, WhileStmt(cond.node, blk.node, nodeLine(n)),
                           Nil))

buildWhileStmt(b, n) ==
    OnOk(buildExpr(b, NamedChild(n, 0)), LAMBDA cond : buildWhileBody(n, cond))

\* the switch c.Kind() of buildBlock on child c
buildBlockChild(b, c) ==
    CASE c.k = "declaration_statement" -> buildVarDecl(b, c)
      [] c.k = "assignment_statement"  -> buildAssignment(b, c)
      [] c.k = "return_statement"      -> buildReturnStmt(b, c)
      [] c.k = "if_statement"          -> buildIfStmt(b, c)
      [] c.k = "while_statement"       -> buildWhileStmt(b, c)
      [] c.k = "method_call"           ->
            OnOk(buildExpr(b, c), LAMBDA e : BRes(e.b, ExprStmt(e.node), Nil))
      [] OTHER -> BRes(b, Nil, Nil)

\* blk.Declarations = append(...) or blk.Stmts = append(...)
appendChild(blk, c, node) ==
    IF node = Nil THEN blk
    ELSE IF c.k = "declaration_statement"
    THEN [blk EXCEPT !.Declarations = Append(@, node)]
    ELSE [blk EXCEPT !.Stmts = Append(@, node)]

\* the loop over the named children of buildBlock, from child i on; blk is b
buildBlockChildren(b, n, i, blk) ==
    IF i >= NamedChildCount(n)
    THEN BRes(b, blk, Nil)
    ELSE OnOk(buildBlockChild(b, NamedChild(n, i)),
              LAMBDA r : buildBlockChildren(
                             r.b, n, i + 1,
                             appendChild(blk, NamedChild(n, i), r.node)))

\* the return of buildBlock: the receiver was a copy, so the caller's
\* symbolTable is the chain it had before the call
leaveBlock(b, r) == BRes([r.b EXCEPT !.symbolTable = b.symbolTable], r.node, r.err)

\* func (builder Builder) buildBlock(n *sitter.Node) (*Block, error)
\* The new Env lives in the receiver's copy: the caller keeps its own chain.
buildBlock(b, n) ==
    leaveBlock(b, buildBlockChildren([b EXCEPT !.symbolTable = NewEnv(@)], n, 0,
                                     Block(<<>>, <<>>, nodeLine(n))))

(***************************************************************************)
(* BuildAST(root, src), one action per part of BuildAST / buildProgram.    *)
(***************************************************************************)
\* return nil, err
BuildFailed(err) == [prog |-> Nil, err |-> err]

\* BuildAST up to the loop of buildProgram: the tests of the root and of the
\* program node, the root Env, the Builder and the empty Program.
BuildASTStart ==
    /\ bdPc = "start"
    /\ IF cst.k # "source_file"
       THEN /\ bdResult' = BuildFailed(BuildError("expected root to be source_file", cst.k))
            /\ bdPc' = "done"
            /\ UNCHANGED <<bd, bdProg>>
       ELSE IF ChildCount(cst) = 0
       THEN /\ bdResult' = BuildFailed(BuildError("empty source file", ""))
            /\ bdPc' = "done"
            /\ UNCHANGED <<bd, bdProg>>
       ELSE IF Child(cst, 0).k # "program"
       THEN /\ bdResult' = BuildFailed(BuildError("expected program node", Child(cst, 0).k))
            /\ bdPc' = "done"
            /\ bd' = [symbolTable |-> <<EmptyTable>>, calls |-> <<>>]
            /\ UNCHANGED bdProg
       ELSE /\ bd' = [symbolTable |-> <<EmptyTable>>, calls |-> <<>>]
            /\ bdProg' = Program(<<>>, <<>>, Nil)
            /\ bdPc' = "children"
            /\ UNCHANGED bdResult
    /\ bdIdx' = 0
    /\ UNCHANGED <<cst, envVars, anVars, cgVars>>

\* the switch c.Kind() of buildProgram on child c
buildTopLevel(b, c) ==
    CASE c.k = "declaration_statement"        -> buildVarDecl(b, c)
      [] c.k = "method_declaration_statement" -> buildMethodDecl(b, c)
      [] OTHER                                -> BRes(b, Nil, Nil)

\* p.Declarations = append(...) or p.Methods = append(...)
appendTopLevel(p, c, node) ==
    IF c.k = "declaration_statement"
    THEN [p EXCEPT !.Declarations = Append(@, node)]
    ELSE IF c.k = "method_declaration_statement"
    THEN [p EXCEPT !.Methods = Append(@, node)]
    ELSE p

\* one iteration of "for i := uint(0); i < n.NamedChildCount(); i++"
BuildChild ==
    /\ bdPc = "children"
    /\ bdIdx < NamedChildCount(Child(cst, 0))
    /\ \E r \in {buildTopLevel(bd, NamedChild(Child(cst, 0), bdIdx))} :
           /\ bd' = r.b
           /\ IF r.err # Nil
              THEN /\ bdResult' = BuildFailed(r.err)
                   /\ bdPc' = "done"
                   /\ UNCHANGED bdProg
              ELSE /\ bdProg' = appendTopLevel(
                                    bdProg, NamedChild(Child(cst, 0), bdIdx), r.node)
                   /\ UNCHANGED <<bdPc, bdResult>>
    /\ bdIdx' = bdIdx + 1
    /\ UNCHANGED <<cst, envVars, anVars, cgVars>>

\* return p, nil.  The Program carries the builder's root table, the table
\* Analyze starts from.
BuildReturn ==
    /\ bdPc = "children"
    /\ bdIdx >= NamedChildCount(Child(cst, 0))
    /\ bdResult' = [prog |-> [bdProg EXCEPT !.Symbols = bd.symbolTable],
                    err |-> Nil]
    /\ bdPc' = "done"
    /\ UNCHANGED <<cst, bd, bdIdx, bdProg, envVars, anVars, cgVars>>

NextBuild == BuildASTStart \/ BuildChild \/ BuildReturn

(***************************************************************************)
(* The trees the parser of src/grammar.js hands to BuildAST.               *)
(***************************************************************************)
\* The tokens of the grammar that are not named nodes.
Anonymous == {"(", "integer", "bool", "void", "extern"}

\* A node of the given kind over its children: the named ones are those that
\* are not anonymous tokens.
Tree(kind, line, type, id, value, all) ==
    Node(kind, "", line, type, id, value,
         SelectSeq(all, LAMBDA c : c.k \notin Anonymous), all)

num(line) == Node("num", "1", line, Nil, Nil, Nil, <<>>, <<>>)
bool_const(line) == Node("true", "true", line, Nil, Nil, Nil, <<>>, <<>>)
identifier(name, line) == Node("identifier", name, line, Nil, Nil, Nil, <<>>, <<>>)

\* seq("(", $._expression, ")") is part of the hidden rule _expression: where
\* a parenthesized expression is the value of a field, the field's first
\* child is the token "(", which has no children of its own.
paren(line) == Node("(", "(", line, Nil, Nil, Nil, <<>>, <<>>)

binary(kind, l, r, line) == Tree(kind, line, Nil, Nil, Nil, <<l, r>>)

method_call(name, args, line) ==
    Tree("method_call", line, Nil, Nil, Nil, <<identifier(name, line)>> \o args)

declaration_statement(type, name, value, line) ==
    Tree("declaration_statement", line, Token(type), identifier(name, line),
         value, <<Token(type), identifier(name, line), value>>)

parameter(type, name, line) ==
    Tree("parameter", line, Token(type), identifier(name, line), Nil,
         <<Token(type), identifier(name, line)>>)

assignment_statement(name, value, line) ==
    Tree("assignment_statement", line, Nil, identifier(name, line), value,
         <<identifier(name, line), value>>)

return_statement(value, line) ==
    Tree("return_statement", line, Nil, Nil, value,
         IF value = Nil THEN <<>> ELSE <<value>>)

block(children, line) == Tree("block", line, Nil, Nil, Nil, children)

if_statement(cond, bs, line) ==
    Tree("if_statement", line, Nil, Nil, Nil, <<cond>> \o bs)

while_statement(cond, blk, line) ==
    Tree("while_statement", line, Nil, Nil, Nil, <<cond, blk>>)

\* choice($.block, seq("extern", ";"))
method_declaration_statement(type, name, params, blk, line) ==
    Tree("method_declaration_statement", line, Token(type),
         identifier(name, line), Nil,
         <<Token(type), identifier(name, line)>> \o params
             \o (IF blk = Nil THEN <<Token("extern")>> ELSE <<blk>>))

program(children, line) == Tree("program", line, Nil, Nil, Nil, children)

source_file(children) == Tree("source_file", 1, Nil, Nil, Nil, children)

\* All sequences of at most n elements of the pool P(line), element i on
\* line first + i.
RECURSIVE SeqsOfLen(_, _, _)
SeqsOfLen(P(_), n, first) ==
    IF n = 0 THEN {<<>>}
    ELSE {Append(ss, x) : ss \in SeqsOfLen(P, n - 1, first), x \in P(first + n)}

SeqsUpTo(P(_), n, first) == UNION {SeqsOfLen(P, m, first) : m \in 0..n}

(***************************************************************************)
(* Specification SpecBuild: BuildAST run on                                *)
(*   - program { D* M* }: up to MaxDecls top-level declarations            *)
(*     integer a | bool f = 1 | a | f; and up to MaxMethods methods        *)
(*     void a|f|main() { } | integer f() extern;                           *)
(*   - program { integer a = 1; void f(P) { D* S } }: parameters P, up to  *)
(*     MaxDecls block declarations bool a | T c = 1 | a | c; and at most   *)
(*     one statement S,                                                    *)
(*   - a root that is not a source_file, an empty source_file, and a       *)
(*     source_file whose child is not a program.                           *)
(***************************************************************************)
MaxDecls == 2
MaxMethods == 2

TopDeclPool(line) ==
    { declaration_statement(d[1], d[2], v, line) :
        d \in {<<"integer", "a">>, <<"bool", "f">>},
        v \in {num(line), identifier("a", line), identifier("f", line)} }

TopMethodPool(line) ==
    { method_declaration_statement("void", name, <<>>, block(<<>>, line), line) :
        name \in {"a", "f", "main"} }
    \cup { method_declaration_statement("integer", "f", <<>>, Nil, line) }

TopLevelTrees(maxDecls, maxMethods) ==
    { source_file(<<program(ds \o ms, 1)>>) :
        ds \in SeqsUpTo(TopDeclPool, maxDecls, 1),
        ms \in SeqsUpTo(TopMethodPool, maxMethods, 1 + maxDecls) }

BlockDeclPool(line) ==
    { declaration_statement(d[1], d[2], v, line) :
        d \in {<<"bool", "a">>, <<"integer", "c">>, <<"bool", "c">>},
        v \in {num(line), identifier("a", line), identifier("c", line)} }

ParamLists ==
    { <<>>,
      <<parameter("bool", "c", 2)>>,
      <<parameter("integer", "p", 2), parameter("bool", "p", 2)>> }

\* a = c;  return c;  if (c) then { bool c = true; bool c = true; }
\* if (true) then { a = z; } else { integer a = a; }   while (true) { c = z; }
\* f(a, z);   a = (c);   a = a + c;   return;
StmtTrees(line) ==
    { assignment_statement("a", identifier("c", line), line),
      return_statement(identifier("c", line), line),
      return_statement(Nil, line),
      if_statement(identifier("c", line),
                   <<block(<<declaration_statement("bool", "c", bool_const(line + 1), line + 1),
                             declaration_statement("bool", "c", bool_const(line + 2), line + 2)>>,
                           line)>>, line),
      if_statement(bool_const(line),
                   <<block(<<assignment_statement("a", identifier("z", line + 1), line + 1)>>, line),
                     block(<<declaration_statement("integer", "a", identifier("a", line + 2), line + 2)>>,
                           line + 2)>>, line),
      while_statement(bool_const(line),
                      block(<<assignment_statement("c", identifier("z", line + 1), line + 1)>>, line),
                      line),
      method_call("f", <<identifier("a", line), identifier("z", line)>>, line),
      assignment_statement("a", paren(line), line),
      assignment_statement("a", binary("int_sum", identifier("a", line),
                                       identifier("c", line), line), line) }

NestedTrees(maxDecls) ==
    { source_file(<<program(
          <<declaration_statement("integer", "a", num(1), 1),
            method_declaration_statement("void", "f", ps,
                                         block(ds \o ss, 2), 2)>>, 1)>>) :
        ps \in ParamLists,
        ds \in SeqsUpTo(BlockDeclPool, maxDecls, 2),
        ss \in SeqsUpTo(StmtTrees, 1, 2 + maxDecls) }

BadRoots ==
    { Node("ERROR", "", 1, Nil, Nil, Nil, <<>>, <<>>),
      source_file(<<>>),
      source_file(<<Node("ERROR", "", 1, Nil, Nil, Nil, <<>>, <<>>)>>) }

Trees(maxDecls, maxMethods) ==
    TopLevelTrees(maxDecls, maxMethods) \cup NestedTrees(maxDecls) \cup BadRoots

InitBuild ==
    /\ cst \in Trees(MaxDecls, MaxMethods)
    /\ bd = Nil /\ bdPc = "start" /\ bdIdx = 0 /\ bdProg = Nil /\ bdResult = Nil
    /\ IdleEnv /\ IdleAn /\ IdleCg

SpecBuild == InitBuild /\ [][NextBuild]_vars

\* The calls of the walk so far, by kind.
Calls(op) == IF bd = Nil THEN {}
             ELSE {i \in 1..Len(bd.calls) : bd.calls[i].op = op}

IsError(err, msg) == err # Nil /\ err.msg = msg

\* C11: a variable declaration fails with the duplicate-declaration error
\* exactly when its name is in the table of the current (innermost) scope.
\* On that failure every table is as it was, so the earlier symbol stands, and
\* a failure at top level is what BuildAST returns.  Otherwise, also when the
\* name is in an ancestor scope, the current table gets the new symbol, which
\* is then the nearest one, and every other entry and every ancestor table is
\* unchanged.
C11_DuplicateInCurrentScope ==
    \A i \in Calls("buildVarDecl") :
        LET c   == bd.calls[i]
            dup == IsError(c.err, "cannot double declare")
        IN  /\ dup <=> (1 \in Holders(c.env, c.name))
            /\ dup => c.after = c.env
            /\ (dup /\ Len(c.env) = 1) => bdResult = BuildFailed(c.err)
            /\ ~dup =>
                 /\ Tail(c.after) = Tail(c.env)
                 /\ DOMAIN c.after[1] = DOMAIN c.env[1] \cup {c.name}
                 /\ c.after[1][c.name] = Symbol(c.type, TRUE, Nil)
                 /\ \A n \in DOMAIN c.env[1] : c.after[1][n] = c.env[1][n]
                 /\ Innermost(Holders(c.after, c.name)) = 1

\* A block that declares a name of an ancestor scope (accepted) and then
\* declares it again (rejected).
C11_Witness ==
    /\ bdPc = "done"
    /\ \E i, j \in Calls("buildVarDecl") :
          /\ i < j
          /\ bd.calls[i].name = bd.calls[j].name
          /\ bd.calls[i].err = Nil
          /\ Holders(bd.calls[i].env, bd.calls[i].name) \notin {{}, {1}}
          /\ 1 \notin Holders(bd.calls[i].env, bd.calls[i].name)
          /\ Len(bd.calls[j].env) > 1
          /\ IsError(bd.calls[j].err, "cannot double declare")

\* The top-level declarations of the tree under construction.
TopChildren == Child(cst, 0).named

\* C12: buildExpr on an identifier returns the unresolved-identifier error
\* exactly when no scope of the builder's chain has the name at that point of
\* the walk, and otherwise an IdentExpr with the type of the innermost scope
\* that has it.  The initializer of a declaration is resolved in the chain as
\* it is before the declaration is inserted, so in a built Program a top-level
\* initializer names only a declaration that comes before it.
C12_IdentifierResolution ==
    /\ \A i \in Calls("identifier") :
          LET c == bd.calls[i]
              H == Holders(c.env, c.name)
          IN  /\ (c.node = Nil) <=> (H = {})
              /\ (c.node = Nil) =>
                    /\ i < Len(bd.calls)
                    /\ bd.calls[i + 1] = [op |-> "error",
                                          msg |-> "could not resolve type of",
                                          name |-> c.name]
              /\ (c.node # Nil) =>
                    /\ c.node.k = "IdentExpr"
                    /\ c.node.Name = c.name
                    /\ c.node.Type = c.env[Innermost(H)][c.name].Type
    /\ \A i \in Calls("buildVarDecl") :
          LET c == bd.calls[i]
          IN  c.value.k = "identifier" =>
                 /\ i > 1
                 /\ bd.calls[i - 1].op \in {"identifier", "error"}
                 /\ \E j \in Calls("identifier") :
                       /\ j \in {i - 1, i - 2}
                       /\ bd.calls[j].name = c.value.text
                       /\ bd.calls[j].env = c.env
    /\ (bdPc = "done" /\ bdResult.prog # Nil) =>
          \A i \in 1..Len(bdResult.prog.Declarations) :
              LET d == bdResult.prog.Declarations[i]
              IN  d.Value.k = "IdentExpr" =>
                     \E j \in 1..(i - 1) :
                        /\ bdResult.prog.Declarations[j].Name = d.Value.Name
                        /\ bdResult.prog.Declarations[j].Type = d.Value.Type

\* A parameter c and a block declaration of c with another type: the return
\* of c carries the block declaration's type; and a rejected self-reference.
C12_Witness ==
    /\ bdPc = "done"
    /\ \E i \in Calls("identifier") :
          LET c == bd.calls[i]
          IN  /\ c.node # Nil
              /\ Cardinality(Holders(c.env, c.name)) >= 2
              /\ \E h \in Holders(c.env, c.name) :
                    c.env[h][c.name].Type # c.node.Type
    /\ \E j \in Calls("buildVarDecl") :
          /\ bd.calls[j].value.k = "identifier"
          /\ bd.calls[j].err # Nil

\* C13: BuildAST returns a Program only if no construct of the walk, the
\* blocks of an if statement and the inner expression of a parenthesized
\* expression included, met an error.
C13_NoErrorSurvives ==
    (bdPc = "done" /\ bdResult.prog # Nil) => Calls("error") = {}

\* The names of the top-level declarations of a Program, in order.
TopNames(p) ==
    [i \in 1..(Len(p.Declarations) + Len(p.Methods)) |->
        IF i <= Len(p.Declarations)
        THEN p.Declarations[i].Name
        ELSE p.Methods[i - Len(p.Declarations)].Name]

\* C14: variables and methods share the top-level namespace.  Building a
\* method whose name an earlier top-level variable or method has fails, and
\* in every Program BuildAST returns the top-level names are pairwise
\* distinct.
C14_OneTopLevelNamespace ==
    (bdPc = "done" /\ bd # Nil) =>
        /\ (\E i, j \in 1..Len(TopChildren) :
               /\ i < j
               /\ TopChildren[j].k = "method_declaration_statement"
               /\ text(TopChildren[i].identifier) = text(TopChildren[j].identifier))
           => (bdResult.prog = Nil /\ bdResult.err # Nil)
        /\ bdResult.prog # Nil =>
              /\ Len(bdResult.prog.Declarations) + Len(bdResult.prog.Methods)
                    = Len(TopChildren)
              /\ \A i, j \in DOMAIN TopNames(bdResult.prog) :
                    i # j => TopNames(bdResult.prog)[i] # TopNames(bdResult.prog)[j]

\* A method named as an earlier top-level variable: the build fails on it.
C14_Witness ==
    /\ bdPc = "done" /\ bd # Nil
    /\ IsError(bdResult.err, "cannot redefine")
    /\ \E i \in 1..Len(TopChildren) :
          /\ TopChildren[i].k = "declaration_statement"
          /\ text(TopChildren[i].identifier) = bdResult.err.name

(***************************************************************************)
(* Specification SpecTyping: Analyze run on the programs                   *)
(*     program { bool gb = true;  [integer gi = I;]                        *)
(*               void v() extern;  integer k() extern;                     *)
(*               integer f(P, ..) extern;                                  *)
(*               T main() { integer x = 0; bool b = false; [U y = I;]      *)
(*                          S [x = 1;] } }                                 *)
(* where S is one statement built from the expression pool below.  Every   *)
(* node of S stands on a line of its own, so that a recorded diagnostic    *)
(* names the node it was recorded for.  The symbol table is the one the    *)
(* builder registers (no FuncInfo), the same table with a FuncInfo on      *)
(* every method, or that table with a stale Arity in every FuncInfo.       *)
(***************************************************************************)
MaxParams == 2
MaxArgs   == 2

\* The three symbol tables a program of the family is analyzed with.
TableModes == {"builder", "func", "stale"}

\* Symbol{Type, isVar: false, Func}: Func nil as the builder leaves it, or a
\* FuncInfo of the declaration, or one whose Arity was never updated.
TyMethodSymbol(m, mode) ==
    CASE mode = "builder" -> MethodSymbol(m)
      [] mode = "func"    -> MethodSymbolWithFunc(m)
      [] OTHER            ->
            Symbol(m.Return, FALSE,
                   FuncInfo(m.Return, ParamInfos(m.Params), Len(m.Params) + 1))

RECURSIVE TyInsertAll(_, _, _, _)
TyInsertAll(table, nodes, i, mode) ==
    IF i > Len(nodes)
    THEN table
    ELSE LET n   == nodes[i]
             sym == IF n.k = "VarDecl" THEN VarSymbol(n) ELSE TyMethodSymbol(n, mode)
         IN  TyInsertAll(TablePut(table, n.Name, sym), nodes, i + 1, mode)

\* p.Symbols of a program of the family
TySymbols(decls, methods, mode) ==
    <<TyInsertAll(EmptyTable, decls \o methods, 1, mode)>>

\* The operand-free expressions at a line: 1, true, x (Integer), b (Bool),
\* v() (Void), k() (Integer) and h() (h is declared nowhere).
Atoms(line) ==
    { IntLiteral(line), BoolLiteral(line),
      IdentExpr("x", TypeInteger, line), IdentExpr("b", TypeBool, line),
      CallExpr("v", <<>>, line), CallExpr("k", <<>>, line),
      CallExpr("h", <<>>, line) }

UnaryOps  == {UnaryNeg, UnaryNot}
BinaryOps == {BinAdd, BinSub, BinMul, BinDiv, BinEq, BinLT, BinGT, BinAnd, BinOr}

\* One operator over atoms: the operator on line, its operands on the next two.
Operations(line) ==
    {UnaryExpr(op, e, line) : op \in UnaryOps, e \in Atoms(line + 1)}
    \cup
    {BinaryExpr(op, l, r, line) :
        op \in BinaryOps, l \in Atoms(line + 1), r \in Atoms(line + 2)}

\* Operators whose operand types are wrong: -true and true OP 1.
IllTyped(line) ==
    {UnaryExpr(UnaryNeg, BoolLiteral(line + 3), line)}
    \cup
    {BinaryExpr(op, BoolLiteral(line + 3), IntLiteral(line + 4), line) :
        op \in BinaryOps}

\* An operator over an ill-typed operator, and the parenthesized expressions.
Nested(line) ==
    UNION { { UnaryExpr(UnaryNeg, e, line), UnaryExpr(UnaryNot, e, line),
              BinaryExpr(BinAdd, e, IntLiteral(line + 2), line),
              BinaryExpr(BinAnd, e, BoolLiteral(line + 2), line),
              BinaryExpr(BinEq, e, BoolLiteral(line + 2), line) } :
            e \in IllTyped(line + 1) }
    \cup {ParenExpr(Nil, line), ParenExpr(BoolLiteral(line + 1), line)}

ExprPool(line) == Atoms(line) \cup Operations(line) \cup Nested(line)

\* The parameter lists of f: up to MaxParams parameters of either type.
ParamNames == <<"p1", "p2", "p3", "p4">>

RECURSIVE ParamSeqs(_)
ParamSeqs(n) ==
    IF n = 0 THEN {<<>>}
    ELSE {Append(ps, Parameter(t, ParamNames[n])) :
            ps \in ParamSeqs(n - 1), t \in {TypeInteger, TypeBool}}

\* The arguments a call of f may carry at a line: 1, true, h() and v().
ArgPool(line) ==
    { IntLiteral(line), BoolLiteral(line),
      CallExpr("h", <<>>, line), CallExpr("v", <<>>, line) }

\* The argument lists of length n; argument i stands on line 31 + i.
RECURSIVE ArgSeqs(_)
ArgSeqs(n) ==
    IF n = 0 THEN {<<>>}
    ELSE {Append(as, e) : as \in ArgSeqs(n - 1), e \in ArgPool(31 + n)}

\* The extern methods every program of the family declares.
MethodV    == MethodDecl(TypeVoid, "v", <<>>, Nil, 3)
MethodK    == MethodDecl(TypeInteger, "k", <<>>, Nil, 4)
MethodF(params) == MethodDecl(TypeInteger, "f", params, Nil, 5)

\* T main() { integer x = 0; bool b = false; extra  stmts }
TyMain(ret, extra, stmts) ==
    MethodDecl(ret, "main", <<>>,
               Block(<<VarDecl(TypeInteger, "x", IntLiteral(21), 21),
                       VarDecl(TypeBool, "b", BoolLiteral(22), 22)>> \o extra,
                     stmts, 20), 20)

TyProgram(topExtra, params, main, mode) ==
    LET decls   == <<VarDecl(TypeBool, "gb", BoolLiteral(2), 2)>> \o topExtra
        methods == <<MethodV, MethodK, MethodF(params), main>>
    IN  Program(decls, methods, TySymbols(decls, methods, mode))

OneParam == <<Parameter(TypeInteger, "p1")>>

\* main holds one assignment: of any expression to the local x or the
\* top-level gb, or of an operand-free one to the undeclared u or the method v.
AssignTargets == {"x", "gb", "u", "v"}

AssignPrograms(modes) ==
    { TyProgram(<<>>, OneParam,
                TyMain(TypeVoid, <<>>, <<Assignment(t, e, 30)>>), mode) :
        t \in {"x", "gb"}, e \in ExprPool(31), mode \in modes }
    \cup
    { TyProgram(<<>>, OneParam,
                TyMain(TypeVoid, <<>>, <<Assignment(t, e, 30)>>), mode) :
        t \in AssignTargets, e \in Atoms(31), mode \in modes }

\* The blocks of an if or a while: x = 1 or x = true, with or without a
\* declaration of a Bool x that shadows main's Integer x.
InnerBlocks(line) ==
    { Block(ds, <<Assignment("x", v, line + 2)>>, line) :
        ds \in {<<>>, <<VarDecl(TypeBool, "x", BoolLiteral(line + 1), line + 1)>>},
        v \in {IntLiteral(line + 3), BoolLiteral(line + 3)} }
    \cup {Block(<<>>, <<>>, line)}

CondPool(line) == Atoms(line) \cup IllTyped(line)

\* main holds an if or a while, and x = 1 after it.
CondPrograms(modes) ==
    { TyProgram(<<>>, OneParam,
                TyMain(TypeVoid, <<>>,
                       <<st, Assignment("x", IntLiteral(61), 60)>>), mode) :
        st \in {IfStmt(c, th, el, 30) :
                   c \in CondPool(31),
                   th \in InnerBlocks(40) \cup {Nil},
                   el \in InnerBlocks(50) \cup {Nil}}
               \cup
               {WhileStmt(c, blk, 30) : c \in CondPool(31), blk \in InnerBlocks(40)},
        mode \in modes }

\* main, of any return type, holds one return.
ReturnPrograms(modes) ==
    { TyProgram(<<>>, OneParam,
                TyMain(ret, <<>>, <<ReturnStmt(e, 30)>>), mode) :
        ret \in TypeKinds, e \in Atoms(31) \cup {Nil}, mode \in modes }

\* main holds a call of f as a statement.
CallPrograms(modes) ==
    { TyProgram(<<>>, params,
                TyMain(TypeVoid, <<>>, <<ExprStmt(CallExpr("f", as, 31))>>), mode) :
        params \in UNION {ParamSeqs(n) : n \in 0..MaxParams},
        as \in UNION {ArgSeqs(n) : n \in 0..MaxArgs},
        mode \in modes }

\* main declares y with an initializer and calls v() as a statement; or the
\* program declares a top-level gi with an initializer, and main is empty or
\* holds x = true.
InitPrograms(modes) ==
    { TyProgram(<<>>, OneParam,
                TyMain(TypeVoid, <<VarDecl(t, "y", e, 23)>>,
                       <<ExprStmt(CallExpr("v", <<>>, 31))>>), mode) :
        t \in {TypeInteger, TypeBool}, e \in Atoms(24), mode \in modes }
    \cup
    { TyProgram(<<VarDecl(TypeInteger, "gi", e, 6)>>, OneParam,
                TyMain(TypeVoid, <<>>, ss), mode) :
        e \in {IntLiteral(7), BoolLiteral(7), CallExpr("v", <<>>, 7),
               CallExpr("k", <<>>, 7), CallExpr("h", <<>>, 7)},
        ss \in {<<>>, <<Assignment("x", BoolLiteral(31), 31)>>},
        mode \in modes }

\* z is declared nowhere.  main holds one construct over z: integer y = z,
\* x = z, if (z) then { }, while (z) { }, x = z + 1, b = !z, f(z), or, in a
\* main that returns Integer, return z.
Undeclared(line) == IdentExpr("z", TypeVoid, line)

UnresolvedPrograms(modes) ==
    { TyProgram(<<>>, OneParam,
                TyMain(TypeVoid, <<VarDecl(TypeInteger, "y", Undeclared(24), 23)>>,
                       <<>>), mode) : mode \in modes }
    \cup
    { TyProgram(<<>>, OneParam, TyMain(TypeVoid, <<>>, <<st>>), mode) :
        st \in { Assignment("x", Undeclared(41), 40),
                 IfStmt(Undeclared(41), Block(<<>>, <<>>, 42), Nil, 40),
                 WhileStmt(Undeclared(41), Block(<<>>, <<>>, 42), 40),
                 Assignment("x", BinaryExpr(BinAdd, Undeclared(42),
                                            IntLiteral(43), 41), 40),
                 Assignment("b", UnaryExpr(UnaryNot, Undeclared(42), 41), 40),
                 ExprStmt(CallExpr("f", <<Undeclared(42)>>, 41)) },
        mode \in modes }
    \cup
    { TyProgram(<<>>, OneParam,
                TyMain(TypeInteger, <<>>, <<ReturnStmt(Undeclared(41), 40)>>), mode) :
        mode \in modes }

\* A method g(integer p1) next to main.  g holds
\*     if (true) then { bool n = true; n = true; } [else { t2 = L; }]   t = L;
\* and main holds t3 = 1, where n, t2 and t are one of u, p1 and the
\* top-level gb, t3 is one of u, p1 and main's x, and L is a literal.
ScopeNames == {"u", "p1", "gb"}

ScopedAssignments(line) ==
    {Assignment(t, v, line) : t \in ScopeNames,
                              v \in {IntLiteral(line + 1), BoolLiteral(line + 1)}}

MethodG(n, el, after) ==
    MethodDecl(TypeVoid, "g", OneParam,
               Block(<<>>,
                     <<IfStmt(BoolLiteral(71),
                              Block(<<VarDecl(TypeBool, n, BoolLiteral(73), 72)>>,
                                    <<Assignment(n, BoolLiteral(75), 74)>>, 72),
                              el, 70),
                       after>>, 69), 69)

ScopeProgram(g, main, mode) ==
    LET decls   == <<VarDecl(TypeBool, "gb", BoolLiteral(2), 2)>>
        methods == <<MethodV, MethodK, MethodF(OneParam), g, main>>
    IN  Program(decls, methods, TySymbols(decls, methods, mode))

ScopePrograms(modes) ==
    { ScopeProgram(MethodG(n, el, after),
                   TyMain(TypeVoid, <<>>, <<Assignment(t3, IntLiteral(31), 30)>>),
                   mode) :
        n \in ScopeNames,
        el \in {Nil} \cup {Block(<<>>, <<st>>, 80) : st \in ScopedAssignments(82)},
        after \in ScopedAssignments(90),
        t3 \in {"u", "p1", "x"},
        mode \in modes }

\* The programs of the family: a stale Arity matters to calls only.
TyPrograms(modes) ==
    AssignPrograms(modes \ {"stale"}) \cup CondPrograms(modes \ {"stale"})
        \cup ReturnPrograms(modes \ {"stale"}) \cup InitPrograms(modes \ {"stale"})
        \cup UnresolvedPrograms(modes \ {"stale"})
        \cup ScopePrograms(modes \ {"stale"})
        \cup CallPrograms(modes)

InitTyping ==
    /\ prog \in TyPrograms(TableModes)
    /\ an = Nil /\ anPc = "start" /\ anIdx = 0 /\ anResult = Nil
    /\ IdleEnv /\ IdleCg /\ IdleBd

SpecTyping == InitTyping /\ [][NextAnalyze]_vars

(***************************************************************************)
(* The typing rules of the language, read off the program text: what is    *)
(* in scope at a statement, and the type of an expression there.           *)
(***************************************************************************)
\* A resolved type, and the outcome of an expression that has none.
Typed(t)   == [ok |-> TRUE, t |-> t]
Unresolved == [ok |-> FALSE, t |-> TypeVoid]

\* The scope after the variables or parameters ds are declared in a new
\* nested scope: the names of ds hide those of scope.
Override(scope, ds) ==
    LET names == {ds[i].Name : i \in 1..Len(ds)}
        first(n) == CHOOSE i \in 1..Len(ds) :
                        /\ ds[i].Name = n
                        /\ \A j \in 1..(i - 1) : ds[j].Name # n
    IN  [n \in DOMAIN scope \cup names |->
            IF n \in names THEN Symbol(ds[first(n)].Type, TRUE, Nil) ELSE scope[n]]

\* Whether name denotes a variable, or a callable method, in scope.
ResolvesToVar(scope, name)  == name \in DOMAIN scope /\ scope[name].isVar
ResolvesToFunc(scope, name) == name \in DOMAIN scope /\ scope[name].Func # Nil

\* The result type the operator table gives each operator.
UnaryResult(op)  == IF op = UnaryNeg THEN TypeInteger ELSE TypeBool
BinaryResult(op) ==
    IF op \in {BinAdd, BinSub, BinMul, BinDiv} THEN TypeInteger ELSE TypeBool

\* The type of expression e in scope.
RECURSIVE typeOf(_, _)
typeOf(e, scope) ==
    CASE e.k = "IntLiteral"  -> Typed(TypeInteger)
      [] e.k = "BoolLiteral" -> Typed(TypeBool)
      [] e.k = "IdentExpr"   ->
            IF e.Name \in DOMAIN scope THEN Typed(scope[e.Name].Type) ELSE Unresolved
      [] e.k = "ParenExpr"   -> typeOf(e.Inner, scope)
      [] e.k = "CallExpr"    ->
            IF ResolvesToFunc(scope, e.Callee)
            THEN Typed(scope[e.Callee].Func.Return) ELSE Unresolved
      [] e.k = "UnaryExpr"   -> Typed(UnaryResult(e.Op))
      [] e.k = "BinaryExpr"  -> Typed(BinaryResult(e.Op))
      [] OTHER               -> Unresolved

\* The statements of block b with the scope each one is analyzed in, the
\* statements of the blocks of its if and while statements included.
RECURSIVE Sites(_, _, _)
Sites(b, scope, m) ==
    LET s == Override(scope, b.Declarations)
        inner(blk) == IF blk = Nil THEN {} ELSE Sites(blk, s, m)
    IN  UNION { {[st |-> b.Stmts[i], scope |-> s, method |-> m]}
                \cup ( CASE b.Stmts[i].k = "IfStmt" ->
                               inner(b.Stmts[i].Then) \cup inner(b.Stmts[i].Else)
                         [] b.Stmts[i].k = "WhileStmt" -> inner(b.Stmts[i].Body)
                         [] OTHER -> {} ) :
                i \in 1..Len(b.Stmts) }

\* Every statement of every method body of program p.
ProgramSites(p) ==
    UNION { IF m.Body = Nil THEN {}
            ELSE Sites(m.Body, Override(p.Symbols[1], m.Params), m) :
            m \in MethodsOf(p) }

AssignmentSites(p) == {s \in ProgramSites(p) : s.st.k = "Assignment"}

\* C15: for every assignment, Analyze records UndeclaredAssignmentTarget
\* exactly when the target does not resolve through the scope chain to a
\* variable (a method of that name does not count), and otherwise records
\* AssignmentTypeMismatch exactly when the type of the value differs from the
\* target's declared type; when Analyze returns no error, the value of every
\* assignment has the type of its target.
C15_AssignmentChecks ==
    anPc = "done" =>
        /\ \A s \in AssignmentSites(prog) :
              LET isVar == ResolvesToVar(s.scope, s.st.Target)
              IN  /\ Recorded("UndeclaredAssignmentTarget", s.st.Line) <=> ~isVar
                  /\ Recorded("AssignmentTypeMismatch", s.st.Line)
                        <=> (/\ isVar
                             /\ typeOf(s.st.Value, s.scope)
                                   # Typed(s.scope[s.st.Target].Type))
        /\ anResult = Nil =>
              \A s \in AssignmentSites(prog) :
                  /\ ResolvesToVar(s.scope, s.st.Target)
                  /\ typeOf(s.st.Value, s.scope) = Typed(s.scope[s.st.Target].Type)

\* x = 1 is reported inside a block that declares a Bool x and accepted after
\* that block.
C15_Witness ==
    /\ anPc = "done"
    /\ \E s1, s2 \in AssignmentSites(prog) :
          /\ s1.st.Target = s2.st.Target
          /\ ResolvesToVar(s1.scope, s1.st.Target)
          /\ ResolvesToVar(s2.scope, s2.st.Target)
          /\ s1.st.Value.k = "IntLiteral" /\ s2.st.Value.k = "IntLiteral"
          /\ s1.scope[s1.st.Target].Type # s2.scope[s2.st.Target].Type
          /\ Recorded("AssignmentTypeMismatch", s1.st.Line)
          /\ ~Recorded("AssignmentTypeMismatch", s2.st.Line)
          /\ ~Recorded("UndeclaredAssignmentTarget", s1.st.Line)

\* Expression e and every expression below it.
RECURSIVE SubExprs(_)
SubExprs(e) ==
    {e} \cup
    CASE e.k = "ParenExpr"  -> IF e.Inner = Nil THEN {} ELSE SubExprs(e.Inner)
      [] e.k = "CallExpr"   -> UNION {SubExprs(e.Args[i]) : i \in 1..Len(e.Args)}
      [] e.k = "UnaryExpr"  -> SubExprs(e.Expr)
      [] e.k = "BinaryExpr" -> SubExprs(e.Left) \cup SubExprs(e.Right)
      [] OTHER              -> {}

\* Block b and the blocks of the if and while statements below it.
RECURSIVE BlocksOf(_)
BlocksOf(b) ==
    {b} \cup
    UNION { LET st == b.Stmts[i]
                inner(blk) == IF blk = Nil THEN {} ELSE BlocksOf(blk)
            IN  CASE st.k = "IfStmt"    -> inner(st.Then) \cup inner(st.Else)
                  [] st.k = "WhileStmt" -> inner(st.Body)
                  [] OTHER              -> {} :
            i \in 1..Len(b.Stmts) }

ProgramBlocks(p) ==
    UNION {IF m.Body = Nil THEN {} ELSE BlocksOf(m.Body) : m \in MethodsOf(p)}

\* The expressions that stand where a value is expected: the initializers,
\* assigned values, returned values and conditions of program p.
ValueRoots(p) ==
    {p.Declarations[i].Value : i \in 1..Len(p.Declarations)}
    \cup UNION { {b.Declarations[i].Value : i \in 1..Len(b.Declarations)}
                 \cup UNION { LET st == b.Stmts[i]
                              IN  CASE st.k = "Assignment" -> {st.Value}
                                    [] st.k = "ReturnStmt" ->
                                          IF st.Value = Nil THEN {} ELSE {st.Value}
                                    [] st.k \in {"IfStmt", "WhileStmt"} -> {st.Cond}
                                    [] OTHER -> {} :
                              i \in 1..Len(b.Stmts) } :
                 b \in ProgramBlocks(p) }

\* The expressions that are statements themselves.
StatementRoots(p) ==
    UNION { {b.Stmts[i].Expr : i \in {j \in 1..Len(b.Stmts) : b.Stmts[j].k = "ExprStmt"}} :
            b \in ProgramBlocks(p) }

IsCall(e) == e.k = "CallExpr"

\* The calls of p that are statements themselves, and all its other calls.
DirectCalls(p) == {e \in StatementRoots(p) : IsCall(e)}
ValueCalls(p)  ==
    {e \in UNION {SubExprs(r) : r \in ValueRoots(p)} : IsCall(e)}
    \cup {e \in UNION {SubExprs(r) \ {r} : r \in StatementRoots(p)} : IsCall(e)}

\* Whether call c names a method that program p declares with return type Void.
IsVoidCall(p, c) ==
    \E m \in MethodsOf(p) : m.Name = c.Callee /\ m.Return = TypeVoid

\* C16: a call of a Void method records VoidUsedAsValue exactly when it
\* stands anywhere other than directly as a statement: as an initializer, an
\* assigned value, a returned value, a condition, an operand or an argument.
C16_VoidUsedAsValue ==
    anPc = "done" =>
        /\ \A c \in ValueCalls(prog) :
              IsVoidCall(prog, c) => Recorded("VoidUsedAsValue", c.Line)
        /\ \A c \in DirectCalls(prog) :
              IsVoidCall(prog, c) => ~Recorded("VoidUsedAsValue", c.Line)

\* How often the analyzer recorded the diagnostic kind for the node on line.
RecordedTimes(kind, line) ==
    Cardinality({i \in 1..Len(an.errors) :
                    an.errors[i].kind = kind /\ an.errors[i].line = line})

\* The calls the analyzer checks as the expression of statement site s: a
\* call statement, the value assigned to a declared variable, a condition.
CheckedCalls(s) ==
    LET roots == CASE s.st.k = "ExprStmt" -> {s.st.Expr}
                   [] s.st.k = "Assignment" ->
                         IF ResolvesToVar(s.scope, s.st.Target)
                         THEN {s.st.Value} ELSE {}
                   [] s.st.k \in {"IfStmt", "WhileStmt"} -> {s.st.Cond}
                   [] OTHER -> {}
    IN  {e \in roots : IsCall(e) /\ ResolvesToFunc(s.scope, e.Callee)}

\* C17: for a call whose callee carries a FuncInfo, checkCallExpr checks the
\* first min(number of arguments, number of parameters) arguments and no
\* other, each against the parameter at its index: it records one
\* ArgumentTypeMismatch per such index whose types differ, for every
\* combination of the two lengths and with a stale Arity field as well.
C17_PairwiseArguments ==
    anPc = "done" =>
        \A s \in ProgramSites(prog) : \A c \in CheckedCalls(s) :
            LET fi == s.scope[c.Callee].Func
                n  == Min(Len(c.Args), Len(fi.Params))
            IN  /\ RecordedTimes("ArgumentTypeMismatch", c.Line)
                      = Cardinality({i \in 1..n :
                            typeOf(c.Args[i], s.scope) # Typed(fi.Params[i].Type)})
                /\ \A i \in 1..Len(c.Args) :
                      IsCall(c.Args[i]) =>
                          ((\/ Recorded("UndeclaredCall", c.Args[i].Line)
                            \/ Recorded("VoidUsedAsValue", c.Args[i].Line))
                              <=> i <= n)

\* f(true, h()) against f(integer p1) with a stale Arity: the first
\* argument is reported, the second is never looked at.
C17_Witness ==
    /\ anPc = "done"
    /\ \E s \in ProgramSites(prog) : \E c \in CheckedCalls(s) :
          LET fi == s.scope[c.Callee].Func
          IN  /\ fi.Arity # Len(fi.Params)
              /\ 0 < Len(fi.Params) /\ Len(fi.Params) < Len(c.Args)
              /\ IsCall(c.Args[Len(c.Args)])
              /\ ~Recorded("UndeclaredCall", c.Args[Len(c.Args)].Line)
              /\ RecordedTimes("ArgumentTypeMismatch", c.Line) = Len(fi.Params)

\* The blocks of the if or while statement st.
BlocksOfStmt(st) ==
    IF st.k = "IfStmt" THEN {st.Then, st.Else} \ {Nil} ELSE {st.Body}

CondSites(p) == {s \in ProgramSites(p) : s.st.k \in {"IfStmt", "WhileStmt"}}

\* C18: for every if and while statement, Analyze records
\* NonBooleanCondition exactly when the type of the condition is not Bool,
\* and whatever the condition is, the then, else and body blocks are
\* analyzed as nested scopes: each assignment in them is checked against the
\* declarations of its own block first, and its diagnostic is recorded.
C18_ConditionsAndBlocks ==
    anPc = "done" =>
        \A s \in CondSites(prog) :
            /\ Recorded("NonBooleanCondition", s.st.Line)
                  <=> typeOf(s.st.Cond, s.scope) # Typed(TypeBool)
            /\ \A blk \in BlocksOfStmt(s.st) : \A i \in 1..Len(blk.Stmts) :
                  LET inner == Override(s.scope, blk.Declarations)
                      st    == blk.Stmts[i]
                  IN  st.k = "Assignment" /\ ResolvesToVar(inner, st.Target) =>
                          (Recorded("AssignmentTypeMismatch", st.Line)
                              <=> typeOf(st.Value, inner) # Typed(inner[st.Target].Type))

\* while (1) { bool x = true; x = 1; }: the condition is reported, and so is
\* the assignment of the body.
C18_Witness ==
    /\ anPc = "done"
    /\ \E s \in CondSites(prog) :
          /\ s.st.k = "WhileStmt"
          /\ s.st.Cond.k = "IntLiteral"
          /\ Recorded("NonBooleanCondition", s.st.Line)
          /\ Len(s.st.Body.Declarations) > 0
          /\ \E i \in 1..Len(s.st.Body.Stmts) :
                /\ s.st.Body.Stmts[i].k = "Assignment"
                /\ Recorded("AssignmentTypeMismatch", s.st.Body.Stmts[i].Line)

\* Expression e and the operands below it that checkExpr reaches whatever
\* the symbol table holds: operands of operators and parenthesized
\* expressions, not arguments of calls.
RECURSIVE Operands(_)
Operands(e) ==
    {e} \cup
    CASE e.k = "ParenExpr"  -> IF e.Inner = Nil THEN {} ELSE Operands(e.Inner)
      [] e.k = "UnaryExpr"  -> Operands(e.Expr)
      [] e.k = "BinaryExpr" -> Operands(e.Left) \cup Operands(e.Right)
      [] OTHER              -> {}

\* The expression the analyzer checks for statement site s, if any.
CheckedRoots(s) ==
    CASE s.st.k = "ExprStmt" -> {s.st.Expr}
      [] s.st.k = "Assignment" ->
            IF ResolvesToVar(s.scope, s.st.Target) THEN {s.st.Value} ELSE {}
      [] s.st.k \in {"IfStmt", "WhileStmt"} -> {s.st.Cond}
      [] OTHER -> {}

\* The operator expressions of kind k the analyzer checks at site s.
CheckedOperators(s, k) ==
    {e \in UNION {Operands(r) : r \in CheckedRoots(s)} : e.k = k}

\* The assignments to a declared variable whose value is an operator
\* expression of kind k.
OperatorAssignments(p, k) ==
    {s \in AssignmentSites(p) :
        ResolvesToVar(s.scope, s.st.Target) /\ s.st.Value.k = k}

\* Whether both operands of binary expression e have type t in scope.
BothOf(e, scope, t) ==
    typeOf(e.Left, scope) = Typed(t) /\ typeOf(e.Right, scope) = Typed(t)

\* C19: an equality is accepted without BinaryTypeMismatch exactly when its
\* operands are both Integer or both Bool; every other pair, Void with Void
\* and pairs with an unresolved operand included, records BinaryTypeMismatch;
\* the result type is Bool in all cases.
C19_EqualityOperands ==
    anPc = "done" =>
        /\ \A s \in ProgramSites(prog) :
              \A e \in CheckedOperators(s, "BinaryExpr") :
                  e.Op = BinEq =>
                      (Recorded("BinaryTypeMismatch", e.Line)
                          <=> ~(\/ BothOf(e, s.scope, TypeInteger)
                                \/ BothOf(e, s.scope, TypeBool)))
        /\ \A s \in OperatorAssignments(prog, "BinaryExpr") :
              s.st.Value.Op = BinEq =>
                  (Recorded("AssignmentTypeMismatch", s.st.Line)
                      <=> s.scope[s.st.Target].Type # TypeBool)

\* The operand type the operator table requires of each operator but ==.
UnaryOperand(op)  == IF op = UnaryNeg THEN TypeInteger ELSE TypeBool
BinaryOperand(op) == IF op \in {BinAnd, BinOr} THEN TypeBool ELSE TypeInteger

\* C20: operator typing follows a fixed table.  Unary - requires an Integer
\* and yields Integer, ! requires a Bool and yields Bool; + - * / require two
\* Integers and yield Integer, < > require two Integers and yield Bool, && ||
\* require two Bools and yield Bool.  A mismatch diagnostic is recorded
\* exactly when an operand has another type, and the expression has the
\* table's result type whether or not a mismatch was recorded.
C20_OperatorTable ==
    anPc = "done" =>
        /\ \A s \in ProgramSites(prog) :
              /\ \A e \in CheckedOperators(s, "UnaryExpr") :
                    Recorded("UnaryTypeMismatch", e.Line)
                        <=> typeOf(e.Expr, s.scope) # Typed(UnaryOperand(e.Op))
              /\ \A e \in CheckedOperators(s, "BinaryExpr") :
                    e.Op # BinEq =>
                        (Recorded("BinaryTypeMismatch", e.Line)
                            <=> ~BothOf(e, s.scope, BinaryOperand(e.Op)))
        /\ \A s \in OperatorAssignments(prog, "UnaryExpr") :
              Recorded("AssignmentTypeMismatch", s.st.Line)
                  <=> s.scope[s.st.Target].Type # UnaryResult(s.st.Value.Op)
        /\ \A s \in OperatorAssignments(prog, "BinaryExpr") :
              s.st.Value.Op # BinEq =>
                  (Recorded("AssignmentTypeMismatch", s.st.Line)
                      <=> s.scope[s.st.Target].Type # BinaryResult(s.st.Value.Op))

\* x = (true < 1) + 1: the comparison is reported, the sum over its Bool
\* result is reported too, and the assignment of the Integer sum is not.
C20_Witness ==
    /\ anPc = "done"
    /\ \E s \in OperatorAssignments(prog, "BinaryExpr") :
          LET e == s.st.Value
          IN  /\ e.Op = BinAdd
              /\ e.Left.k = "BinaryExpr" /\ e.Left.Op = BinLT
              /\ Recorded("BinaryTypeMismatch", e.Left.Line)
              /\ Recorded("BinaryTypeMismatch", e.Line)
              /\ s.scope[s.st.Target].Type = TypeInteger
              /\ ~Recorded("AssignmentTypeMismatch", s.st.Line)

\* Block b and the blocks below it, each with the scope around it.
RECURSIVE ScopedBlocks(_, _)
ScopedBlocks(b, scope) ==
    LET s == Override(scope, b.Declarations)
        inner(blk) == IF blk = Nil THEN {} ELSE ScopedBlocks(blk, s)
    IN  {[blk |-> b, outer |-> scope]}
        \cup UNION { CASE b.Stmts[i].k = "IfStmt" ->
                            inner(b.Stmts[i].Then) \cup inner(b.Stmts[i].Else)
                       [] b.Stmts[i].k = "WhileStmt" -> inner(b.Stmts[i].Body)
                       [] OTHER -> {} :
                     i \in 1..Len(b.Stmts) }

ProgramScopedBlocks(p) ==
    UNION { IF m.Body = Nil THEN {}
            ELSE ScopedBlocks(m.Body, Override(p.Symbols[1], m.Params)) :
            m \in MethodsOf(p) }

\* The declarations of program p, each with the scope its initializer is
\* read in: a top-level one sees the whole root table, a block's one sees
\* the declarations of its block up to and including itself.
DeclSites(p) ==
    {[d |-> p.Declarations[i], scope |-> p.Symbols[1], top |-> TRUE] :
        i \in 1..Len(p.Declarations)}
    \cup UNION { {[d |-> sb.blk.Declarations[i],
                   scope |-> Override(sb.outer, SubSeq(sb.blk.Declarations, 1, i)),
                   top |-> FALSE] :
                    i \in 1..Len(sb.blk.Declarations)} :
                 sb \in ProgramScopedBlocks(p) }

\* C21: for every variable declaration with an initializer, in a block and
\* at top level alike, Analyze records InitializerTypeMismatch exactly when
\* the initializer's type is resolved and differs from the declared type.
C21_InitializerChecks ==
    anPc = "done" =>
        \A s \in DeclSites(prog) :
            s.d.Value # Nil =>
                (Recorded("InitializerTypeMismatch", s.d.Line)
                    <=> (/\ typeOf(s.d.Value, s.scope).ok
                         /\ typeOf(s.d.Value, s.scope) # Typed(s.d.Type)))

(***************************************************************************)
(* Specification SpecParams: BuildAST and Analyze on the same programs     *)
(*     program { void f(T1 n1, .., Tk nk) { n = L; }  void main() { } }    *)
(* with k <= MaxParams, every Ti integer or bool, every ni and n one of p  *)
(* and q, and L a literal.  cst is the program as a syntax tree, prog the  *)
(* same program as the AST the analyzer is handed.                         *)
(***************************************************************************)
ParamSpecs(n) ==
    [1..n -> {"integer", "bool"} \X {"p", "q"}]

ParamKind(type) == IF type = "integer" THEN TypeInteger ELSE TypeBool

ParamsTree(ps, target, lit) ==
    source_file(<<program(
        <<method_declaration_statement(
              "void", "f", [i \in 1..Len(ps) |-> parameter(ps[i][1], ps[i][2], 2)],
              block(<<assignment_statement(
                          target, IF lit = "num" THEN num(3) ELSE bool_const(3), 3)>>,
                    2), 2),
          method_declaration_statement("void", "main", <<>>, block(<<>>, 9), 9)>>,
        1)>>)

ParamsMethods(ps, target, lit) ==
    << MethodDecl(TypeVoid, "f",
                  [i \in 1..Len(ps) |-> Parameter(ParamKind(ps[i][1]), ps[i][2])],
                  Block(<<>>,
                        <<Assignment(target,
                                     IF lit = "num" THEN IntLiteral(3)
                                     ELSE BoolLiteral(3), 3)>>, 2), 2),
       MainMethod >>

ParamsProgram(ps, target, lit) ==
    Program(<<>>, ParamsMethods(ps, target, lit),
            RootSymbols(<<>>, ParamsMethods(ps, target, lit), FALSE))

InitParams ==
    /\ \E n \in 0..MaxParams : \E ps \in ParamSpecs(n) :
       \E target \in {"p", "q"}, lit \in {"num", "true"} :
           /\ cst = ParamsTree(ps, target, lit)
           /\ prog = ParamsProgram(ps, target, lit)
    /\ bd = Nil /\ bdPc = "start" /\ bdIdx = 0 /\ bdProg = Nil /\ bdResult = Nil
    /\ an = Nil /\ anPc = "start" /\ anIdx = 0 /\ anResult = Nil
    /\ IdleEnv /\ IdleCg

NextParams == NextBuild \/ NextAnalyze

SpecParams == InitParams /\ [][NextParams]_vars

\* The method f of the program under analysis, and the parameter names that
\* stand twice in its list.
MethodUnderTest == prog.Methods[1]

RepeatedParams ==
    LET ps == MethodUnderTest.Params
    IN  {ps[i].Name : i \in {j \in 1..Len(ps) :
                                \E h \in 1..(j - 1) : ps[h].Name = ps[j].Name}}

\* The parameter that stands first under the given name.
FirstParam(name) ==
    LET ps == MethodUnderTest.Params
    IN  ps[CHOOSE i \in 1..Len(ps) :
                /\ ps[i].Name = name
                /\ \A j \in 1..(i - 1) : ps[j].Name # name]

\* C22: a method whose parameter list holds a name twice is rejected.
\* BuildAST returns no program and the error "duplicate parameter name";
\* Analyze returns an error, records DuplicateParameter for every repeated
\* name, and checks the body with the first parameter of that name in scope:
\* the assignment n = L of the body records AssignmentTypeMismatch exactly
\* when L has not the type of the first parameter named n.
C22_DuplicateParameter ==
    RepeatedParams # {} =>
        /\ bdPc = "done" =>
              /\ bdResult.prog = Nil
              /\ IsError(bdResult.err, "duplicate parameter name")
              /\ bdResult.err.name \in RepeatedParams
        /\ anPc = "done" =>
              /\ anResult # Nil
              /\ \A n \in RepeatedParams :
                    \E i \in 1..Len(an.errors) :
                        /\ an.errors[i].kind = "DuplicateParameter"
                        /\ an.errors[i].name = n
              /\ \A st \in StmtsOf(MethodUnderTest) :
                    st.Target \in RepeatedParams =>
                        (Recorded("AssignmentTypeMismatch", st.Line)
                            <=> LiteralType(st.Value) # FirstParam(st.Target).Type)

\* Both have run on void f(integer p, bool p) { p = true; }: the builder
\* failed, the analyzer recorded the duplicate and the body's mismatch.
C22_Witness ==
    /\ bdPc = "done" /\ anPc = "done"
    /\ Len(MethodUnderTest.Params) = 2
    /\ MethodUnderTest.Params[1] = Parameter(TypeInteger, "p")
    /\ MethodUnderTest.Params[2] = Parameter(TypeBool, "p")
    /\ IsError(bdResult.err, "duplicate parameter name")
    /\ \E i \in 1..Len(an.errors) : an.errors[i].kind = "DuplicateParameter"
    /\ Recorded("AssignmentTypeMismatch", 3)

\* The analyzer a with nothing recorded yet.
Clean(a) == [a EXCEPT !.errors = <<>>]

IsPrefix(s, t) == Len(s) <= Len(t) /\ SubSeq(t, 1, Len(s)) = s

\* One step of Analyze records what the same step records on an analyzer
\* that has no diagnostic yet, after the diagnostics recorded before.
StepIgnoresEarlierDiagnostics ==
    /\ an # Nil => IsPrefix(an.errors, an'.errors)
    /\ anPc = "decls" =>
          /\ anPc' = "methods"
          /\ an'.errors = an.errors \o
                scanDeclarations(Clean(an), prog.Declarations, 1, {}).errors
    /\ (anPc = "methods" /\ anIdx <= Len(prog.Methods)) =>
          /\ anPc' = "methods" /\ anIdx' = anIdx + 1
          /\ an'.errors = an.errors \o
                analyzeMethod(Clean(an), prog.Methods[anIdx]).errors

\* C23: Analyze does not stop at the first diagnostic.  Every top-level
\* declaration and every method is walked and records what it would record
\* had nothing been recorded before; Analyze returns nil exactly when no
\* diagnostic was recorded, and otherwise the one recorded first.
C23_WalksEverything ==
    /\ [](anPc = "done" =>
             /\ anIdx = Len(prog.Methods) + 1
             /\ (anResult = Nil <=> an.errors = <<>>)
             /\ (an.errors # <<>> => anResult = an.errors[1]))
    /\ [][StepIgnoresEarlierDiagnostics]_vars

\* Analyze returned the diagnostic of a top-level initializer although the
\* body of main, walked after it, recorded one too.
C23_Witness ==
    /\ anPc = "done"
    /\ Len(an.errors) >= 2
    /\ an.errors[1].line = 7
    /\ \E i \in 2..Len(an.errors) : an.errors[i].line >= 20
    /\ anResult = an.errors[1]

\* Whether e is an identifier that scope does not declare.
DirectlyUnresolved(e, scope) ==
    e # Nil /\ e.k = "IdentExpr" /\ e.Name \notin DOMAIN scope

\* Whether e is such an identifier or has type t.
UnresolvedOr(e, scope, t) ==
    DirectlyUnresolved(e, scope) \/ typeOf(e, scope) = Typed(t)

\* The calls that stand as a statement, name a method with a FuncInfo and
\* pass as many arguments as it has parameters, every argument an undeclared
\* identifier or of its parameter's type, and one at least undeclared.
CallsOverUnresolved(s) ==
    IF s.st.k = "ExprStmt" /\ s.st.Expr.k = "CallExpr"
          /\ ResolvesToFunc(s.scope, s.st.Expr.Callee)
    THEN LET c  == s.st.Expr
             ps == s.scope[c.Callee].Func.Params
         IN  IF /\ Len(c.Args) = Len(ps)
                /\ \A i \in 1..Len(ps) : UnresolvedOr(c.Args[i], s.scope, ps[i].Type)
                /\ \E i \in 1..Len(ps) : DirectlyUnresolved(c.Args[i], s.scope)
             THEN {c} ELSE {}
    ELSE {}

ScopeShape(e) ==
    [i \in 1..Len(e) |->
        [n \in DOMAIN e[i] |-> <<e[i][n].Type, e[i][n].isVar>>]]

\* C25: analyzer scopes follow a push/pop discipline.  analyzeBlock and
\* analyzeMethod, run on any block or method of the program from the
\* analyzer's state, return with the scope chain they were entered with, and
\* between the steps of Analyze the chain is the root table alone.  So every
\* assignment resolves its target in the scope of its place in the text: a
\* name declared in a block is no variable after that block, in a sibling
\* block or in another method, and a local that shadows a parameter or a
\* top-level variable leaves the outer symbol's type as it was.
C25_ScopeDiscipline ==
    an # Nil =>
        /\ ScopeShape(an.env) = ScopeShape(prog.Symbols)
        /\ \A b \in ProgramBlocks(prog) :
              ScopeShape(analyzeBlock(an, b).env) = ScopeShape(an.env)
        /\ \A m \in MethodsOf(prog) :
              ScopeShape(analyzeMethod(an, m).env) = ScopeShape(an.env)
        /\ anPc = "done" =>
              \A s \in AssignmentSites(prog) :
                  IF ResolvesToVar(s.scope, s.st.Target)
                  THEN /\ ~Recorded("UndeclaredAssignmentTarget", s.st.Line)
                       /\ s.st.Value.k \in {"IntLiteral", "BoolLiteral"} =>
                             (Recorded("AssignmentTypeMismatch", s.st.Line)
                                <=> LiteralType(s.st.Value)
                                       # s.scope[s.st.Target].Type)
                  ELSE Recorded("UndeclaredAssignmentTarget", s.st.Line)

\* g(integer p1) declared a Bool p1 and a name of its own in its then block:
\* p1 = 1 after the block is accepted, p1 = 1 in main is reported as
\* undeclared, and so is an assignment in the else block to the name the then
\* block declared.
C25_Witness ==
    /\ anPc = "done"
    /\ \E s1, s2, s3, s4 \in AssignmentSites(prog) :
          /\ s1.method.Name = "g" /\ s1.st.Line = 74 /\ s1.st.Target = "p1"
          /\ s2.method.Name = "g" /\ s2.st.Line = 90 /\ s2.st.Target = "p1"
          /\ s2.st.Value.k = "IntLiteral"
          /\ s3.method.Name = "main" /\ s3.st.Target = "p1"
          /\ s4.method.Name = "g" /\ s4.st.Line = 82 /\ s4.st.Target = "u"
          /\ ~Recorded("AssignmentTypeMismatch", 74)
          /\ ~Recorded("AssignmentTypeMismatch", 90)
          /\ ~Recorded("UndeclaredAssignmentTarget", 90)
          /\ Recorded("UndeclaredAssignmentTarget", 30)
          /\ Recorded("UndeclaredAssignmentTarget", 82)

(***************************************************************************)
(* The code generator's abort flag, stores, declarations, returns and      *)
(* registers.                                                              *)
(***************************************************************************)
\* The generators that exist, and the statements of the body.
Generators == {pass1, pass2} \ {Nil}

BodyStmts ==
    IF body = Nil THEN {}
    ELSE {body.Statements[i] : i \in 1..Len(body.Statements)}

\* Generator g2 has the text, the slots and the flag of the aborted g1.
SameOutput(g1, g2) ==
    /\ g2.abort
    /\ g2.b = g1.b
    /\ g2.nextOffset = g1.nextOffset
    /\ g2.symtab = g1.symtab

\* Whatever runs on a generator right after it recorded an error leaves the
\* flag set, the text and the slots as they are.
NothingAfterError(g) ==
    LET ga == errUnknownStmt(g)
    IN  /\ ga.abort
        /\ emit(ga, <<"; skip">>) = ga
        /\ emitEpilogue(ga) = ga
        /\ \A s \in BodyStmts :
              /\ generateStmt(ga, s) = ga
              /\ s.k = "Decl" =>
                    SameOutput(ga, allocVar(ga, s.Name, s.VarType, s.Line))
              /\ (s.k \in {"Assign", "Return"} /\ s.Value # Nil) =>
                    /\ evalExprToReg(ga, s.Value) = RegRes(ga, "", FALSE)
                    /\ SameOutput(ga, typeOfExpr(ga, s.Value).g)

\* C26: within a pass the abort flag is monotonic.  A generator that holds
\* a diagnostic has abort set; abort once set stays set, and from then on no
\* line is appended to the text and no slot is allocated, by the walk and by
\* every operation of the generator alike.
C26_AbortMonotonic ==
    /\ [](\A g \in Generators :
             /\ g.diagnostics # <<>> => g.abort
             /\ NothingAfterError(g))
    /\ [][/\ Aborted(pass1) => SameOutput(pass1, pass1')
          /\ Aborted(pass2) => SameOutput(pass2, pass2')]_vars

\* int a; int a; bool b; was given up at the second declaration: b has no
\* slot and the frame is that of a alone.
C26_Witness ==
    /\ cgPc = "done" /\ body # Nil
    /\ Len(body.Statements) = 3
    /\ body.Statements[1] = Decl(TypeInt, "a", 1)
    /\ body.Statements[2] = Decl(TypeInt, "a", 2)
    /\ body.Statements[3] = Decl(TypeBoolCg, "b", 3)
    /\ pass1.abort
    /\ pass1.nextOffset = 8
    /\ "b" \notin DOMAIN pass1.symtab
    /\ cgResult.asm = <<>>

\* The assignments tried on every generator: to a, b or c, of 1, true, a, b,
\* b + b or a + 1, and the assignments of the body.
AssignPool ==
    { Assign(n, v, 7) :
        n \in {"a", "b", "c"},
        v \in { IntLit(1, 7), BoolLit(TRUE, 7), Identifier("a", 7),
                Identifier("b", 7),
                Binary(OpAdd, Identifier("b", 7), Identifier("b", 7), 7),
                Binary(OpAdd, Identifier("a", 7), IntLit(1, 7), 7) } }
    \cup {s \in BodyStmts : s.k = "Assign"}

\* The type of expression e over the declared variables: that of a literal
\* or of a declared variable, int for an operation over typed operands.
RECURSIVE Inferred(_, _)
Inferred(e, symtab) ==
    CASE e.k = "IntLiteral"  -> Typed(TypeInt)
      [] e.k = "BoolLiteral" -> Typed(TypeBoolCg)
      [] e.k = "Identifier"  ->
            IF e.Name \in DOMAIN symtab THEN Typed(symtab[e.Name].Type)
            ELSE Unresolved
      [] e.k = "BinaryExpr"  ->
            IF Inferred(e.Left, symtab).ok /\ Inferred(e.Right, symtab).ok
            THEN Typed(TypeInt) ELSE Unresolved
      [] OTHER               -> Unresolved

\* The lines generator g2 has that g did not have.
NewLines(g, g2) ==
    IF g.b = Nil THEN <<>> ELSE SubSeq(g2.b.text, Len(g.b.text) + 1, Len(g2.b.text))

Stores(lines) == {i \in 1..Len(lines) : lines[i][1] = "MOV [BP-%d], %s"}

\* C27: generateStmt emits a store MOV [BP-offset], reg for an assignment
\* only if the target has a slot and the value's inferred type is the
\* target's; the store is the last line and names the target's offset.  When
\* the types differ, TypeMismatch is recorded for the target, no line at all
\* is emitted and the free list is as it was.
C27_StoreOnlyWellTyped ==
    \A g \in Generators :
        ~g.abort =>
            \A s \in AssignPool :
                LET g2       == generateStmt(g, s)
                    new      == NewLines(g, g2)
                    declared == s.Name \in DOMAIN g.symtab
                    t        == Inferred(s.Value, g.symtab)
                IN  /\ Stores(new) # {} =>
                          /\ declared
                          /\ t = Typed(g.symtab[s.Name].Type)
                          /\ Stores(new) = {Len(new)}
                          /\ new[Len(new)][2] = g.symtab[s.Name].Offset
                    /\ (declared /\ t.ok /\ t.t # g.symtab[s.Name].Type) =>
                          /\ g2.diagnostics = Append(g.diagnostics,
                                CodeGenError("ErrTypeMismatch", s.Line, s.Name,
                                             t.t, g.symtab[s.Name].Type))
                          /\ new = <<>>
                          /\ g2.free = g.free
                    /\ (declared /\ t = Typed(g.symtab[s.Name].Type)
                          /\ ~g.dryRun /\ AllFree(g)) =>
                          Stores(new) = {Len(new)}

\* int a; bool b; b = a; ended with one TypeMismatch, no text and every
\* register free.
C27_Witness ==
    /\ cgPc = "done" /\ body # Nil
    /\ Len(body.Statements) = 3
    /\ body.Statements[3] = Assign("b", Identifier("a", 3), 3)
    /\ diags = <<CodeGenError("ErrTypeMismatch", 3, "b", TypeInt, TypeBoolCg)>>
    /\ cgResult.asm = <<>>
    /\ AllFree(pass1)
    /\ pass2 = Nil

\* The names declared by the statements before statement i of the body.
DeclaredBefore(i) ==
    {body.Statements[j].Name :
        j \in {h \in 1..(i - 1) : body.Statements[h].k = "Decl"}}

\* The identifiers expression e reads that are not in declared, in the order
\* of the text.
RECURSIVE UndeclaredReads(_, _)
UndeclaredReads(e, declared) ==
    CASE e.k = "Identifier" -> IF e.Name \in declared THEN <<>> ELSE <<e>>
      [] e.k = "BinaryExpr" -> UndeclaredReads(e.Left, declared)
                                  \o UndeclaredReads(e.Right, declared)
      [] OTHER              -> <<>>

\* The diagnostics statement s is to record for the names it uses that are
\* not in declared, the first of them first: the target of an assignment, or
\* else the identifiers its value reads; <<>> if it uses no such name.
UseBeforeOf(s, declared) ==
    LET use(line, name) == CodeGenError("ErrUseBeforeDeclare", line, name, 0, 0)
        reads(e) == [i \in 1..Len(UndeclaredReads(e, declared)) |->
                        use(UndeclaredReads(e, declared)[i].Line,
                            UndeclaredReads(e, declared)[i].Name)]
    IN  CASE s.k = "Assign" ->
                IF s.Name \notin declared THEN <<use(s.Line, s.Name)>>
                ELSE reads(s.Value)
          [] s.k = "Return" -> IF s.Value = Nil THEN <<>> ELSE reads(s.Value)
          [] OTHER          -> <<>>

\* The statements walked so far in the running pass, or in the last one.
Walked == IF body = Nil \/ cgPc = "start" THEN {} ELSE 1..(cgIdx - 1)

\* C28: a name is usable only after its declaration in statement order.  A
\* walked statement that assigns to, or reads, a name that no earlier
\* statement declared records use-before-declare for the first such name (a
\* declaration further down does not count), the walk ends there and the
\* result holds no assembly.
C28_NoHoisting ==
    /\ [](\A i \in Walked :
             UseBeforeOf(body.Statements[i], DeclaredBefore(i)) # <<>> =>
                /\ diags # <<>>
                /\ diags[1] = UseBeforeOf(body.Statements[i], DeclaredBefore(i))[1]
                /\ \A j \in 1..Len(diags) : diags[j].Kind = "ErrUseBeforeDeclare"
                /\ i = cgIdx - 1
                /\ Aborted(CurGen) \/ cgPc = "done"
                /\ pass2 = Nil
                /\ cgPc = "done" => cgResult.asm = <<>>)
    /\ [][(Walking /\ UseBeforeOf(body.Statements[cgIdx],
                                  DeclaredBefore(cgIdx)) # <<>>)
              => /\ diags' # diags
                 /\ NewLines(CurGen, IF cgPc = "pass1" THEN pass1' ELSE pass2')
                        = <<>>]_vars

\* a = 1; int a; was given up at the assignment: a never got its slot.
C28_Witness ==
    /\ cgPc = "done" /\ body # Nil
    /\ Len(body.Statements) = 2
    /\ body.Statements[1] = Assign("a", IntLit(1, 1), 1)
    /\ body.Statements[2] = Decl(TypeInt, "a", 2)
    /\ diags = <<CodeGenError("ErrUseBeforeDeclare", 1, "a", 0, 0)>>
    /\ cgResult.asm = <<>>
    /\ pass1.symtab = EmptyTable

\* The epilogue as it stands in the text.
Epilogue == << <<"; epilogue">>, <<"MOV SP, BP">>, <<"POP BP">>, <<"RET">> >>

\* The returns tried on every generator: of nothing, 1, a, a + 1, and the
\* returns of the body.
ReturnPool ==
    { Return(v, 7) :
        v \in { Nil, IntLit(1, 7), Identifier("a", 7),
                Binary(OpAdd, Identifier("a", 7), IntLit(1, 7), 7) } }
    \cup {s \in BodyStmts : s.k = "Return"}

\* The orders the free list of four registers can be in.
FreeOrders ==
    {f \in [1..4 -> {Regs[i] : i \in 1..4}] : \A i, j \in 1..4 : f[i] = f[j] => i = j}

\* What generateStmt appends for return s on the emitting generator g: the
\* code of the value, MOV R0, reg exactly when the value is not in R0, and
\* the epilogue; the value's register is back at the end of the free list.
ReturnEmitted(g, s) ==
    LET g2 == generateStmt(g, s)
    IN  IF s.Value = Nil
        THEN NewLines(g, g2) = Epilogue /\ g2.free = g.free
        ELSE LET e == evalExprToReg(g, s.Value)
             IN  e.ok =>
                   /\ NewLines(g, g2) =
                         NewLines(g, e.g)
                            \o (IF e.r # "R0" THEN << <<"MOV R0, %s", e.r>> >>
                                ELSE <<>>)
                            \o Epilogue
                   /\ g2.free = Append(e.g.free, e.r)
                   /\ ~g2.abort

\* The line that ends the code of a statement of kind k, and the kind whose
\* code a line ends.
LastLineOf(k) ==
    CASE k = "Return" -> "RET"
      [] k = "Assign" -> "MOV [BP-%d], %s"
      [] k = "Skip"   -> "; skip"
      [] OTHER        -> ""

Emitting == {"Return", "Assign", "Skip"}

\* The kinds of the statements of the body that emit code, in body order,
\* and the same read off the last lines of the text.
EmittingKinds ==
    LET ss == SelectSeq(body.Statements, LAMBDA s : s.k \in Emitting)
    IN  [i \in 1..Len(ss) |-> LastLineOf(ss[i].k)]

EmittedKinds(asm) ==
    LET ls == SelectSeq(asm, LAMBDA l : l[1] \in {LastLineOf(k) : k \in Emitting})
    IN  [i \in 1..Len(ls) |-> ls[i][1]]

\* C29: every return emits its own epilogue right after its own code.  The
\* text of an accepted body holds as many epilogues as the body has
\* returns, the statements' codes stand in body order, those after a return
\* included; a return with a value moves it to R0 exactly when its register
\* is not R0, whatever the order of the free list, and frees the register.
C29_EpiloguePerReturn ==
    /\ (cgPc = "done" /\ body # Nil /\ diags = <<>>) =>
          /\ CountLines(cgResult.asm, "RET") = CountStmts("Return")
          /\ CountLines(cgResult.asm, "; epilogue") = CountStmts("Return")
          /\ \A i \in 1..Len(cgResult.asm) :
                cgResult.asm[i] = <<"RET">> =>
                    i >= 4 /\ SubSeq(cgResult.asm, i - 3, i) = Epilogue
          /\ EmittedKinds(cgResult.asm) = EmittingKinds
    /\ (pass2 # Nil /\ ~pass2.abort) =>
          \A s \in ReturnPool :
              /\ ReturnEmitted(pass2, s)
              /\ \A f \in FreeOrders : ReturnEmitted([pass2 EXCEPT !.free = f], s)

\* int a; return a; return; both returns have their epilogue, the first
\* after MOV R0, R3.
C29_Witness ==
    /\ cgPc = "done" /\ body # Nil /\ diags = <<>>
    /\ Len(body.Statements) = 3
    /\ body.Statements[1] = Decl(TypeInt, "a", 1)
    /\ body.Statements[2] = Return(Identifier("a", 2), 2)
    /\ body.Statements[3] = Return(Nil, 3)
    /\ CountLines(cgResult.asm, "RET") = 2
    /\ \E i \in 1..Len(cgResult.asm) :
          /\ cgResult.asm[i] = <<"MOV R0, %s", "R3">>
          /\ SubSeq(cgResult.asm, i + 1, i + 4) = Epilogue
          /\ SubSeq(cgResult.asm, i + 5, i + 8) = Epilogue

\* The points of evalExprToReg(g, e) at which the register file changes
\* hands, each as the generator there and the registers that hold a value
\* still to be used; live are those of the callers.
RECURSIVE PoolPoints(_, _, _)

\* the point after the right operand r: both operands hold their value
RightPoints(e, live, r) ==
    IF r.ok THEN {[g |-> r.g, live |-> live \cup {r.r}]} ELSE {}

\* the points of a binary expression, given the outcome l of its left operand
LeftPoints(g, e, live, l) ==
    PoolPoints(g, e.Left, live)
        \cup (IF l.ok
              THEN RightPoints(e, live \cup {l.r}, evalExprToReg(l.g, e.Right))
                      \cup PoolPoints(l.g, e.Right, live \cup {l.r})
              ELSE {})

\* the points of e, given the outcome res of its evaluation
PointsOf(g, e, live, res) ==
    IF e.k # "BinaryExpr" \/ g.abort
    THEN {[g |-> g, live |-> live],
          [g |-> res.g, live |-> IF res.ok THEN live \cup {res.r} ELSE live]}
    ELSE {[g |-> res.g, live |-> IF res.ok THEN live \cup {res.r} ELSE live]}
            \cup LeftPoints(g, e, live, evalExprToReg(g, e.Left))

PoolPoints(g, e, live) == PointsOf(g, e, live, evalExprToReg(g, e))

\* No register stands twice in the free list, and none is free and live.
PoolSound(p) ==
    /\ \A i, j \in 1..Len(p.g.free) : p.g.free[i] = p.g.free[j] => i = j
    /\ p.live \cap {p.g.free[i] : i \in 1..Len(p.g.free)} = {}
    /\ p.live \cup {p.g.free[i] : i \in 1..Len(p.g.free)} = {Regs[i] : i \in 1..4}

\* The expressions evaluated on every generator: the values of the pools, a
\* sum of five operands nested to the right, an operation of a kind the
\* generator does not know, and the values of the body.
RECURSIVE RightChain(_)
RightChain(n) ==
    IF n = 1 THEN IntLit(1, 7)
    ELSE Binary(OpAdd, IntLit(1, 7), RightChain(n - 1), 7)

EvalPool ==
    {s.Value : s \in {x \in AssignPool \cup ReturnPool : x.Value # Nil}}
        \cup {RightChain(5),
              Binary(OpSub + 1, IntLit(1, 7), IntLit(2, 7), 7)}

\* C30: the register pool.  Between statements, in either pass and after an
\* error too, the free list holds each of R0..R3 exactly once.  While an
\* expression is evaluated no register is twice in the free list or free and
\* holding a value, whether the evaluation succeeds or fails.  A generator
\* that recorded no error has the free list in its initial order, and every
\* expression it evaluates leaves its result in R3.
C30_RegisterPool ==
    \A g \in Generators :
        /\ AllFree(g)
        /\ ~g.abort => g.free = Regs
        /\ \A e \in EvalPool :
              /\ \A p \in PoolPoints(g, e, {}) : PoolSound(p)
              /\ evalExprToReg(g, e).ok => evalExprToReg(g, e).r = "R3"
        /\ \A s \in AssignPool \cup ReturnPool
                    \cup {Return(e, 7) : e \in EvalPool} :
              /\ AllFree(generateStmt(g, s))
              /\ ~generateStmt(g, s).abort => generateStmt(g, s).free = Regs

\* A return of a sum that needs a fifth register was given up with
\* ErrNoRegisters, and the four registers are free again.
C30_Witness ==
    /\ cgPc = "done" /\ body # Nil
    /\ CountDiags("ErrNoRegisters") = 1
    /\ Len(body.Statements) = 2
    /\ body.Statements[2].k = "Return"
    /\ pass1.abort
    /\ AllFree(pass1)

====
